---- MODULE Spec2Model ----
(***************************************************************************)
(* HistoryService (vs/workbench/services/history/browser/historyService.ts) *)
(* as a state machine: the back/forward navigation stack, the global       *)
(* history list, the recently-closed buffer and the recently-used editor   *)
(* stacks, driven by editor, file, storage and configuration events.       *)
(***************************************************************************)
EXTENDS Integers, Sequences, FiniteSets, TLC

VARIABLES
    editorNavigationStack,
    editorNavigationStackIndex,
    lastEditorNavigationStackIndex,
    navigatingInEditorStack,
    currentEditorSelectionState,
    editorNavigationStackListeners,
    navigatePending,
    lastActiveEditor,
    lastEditLocation,
    history,
    historyLoaded,
    editorHistoryListeners,
    whenReadyPending,
    recentlyClosedEditors,
    ignoreEditorCloseEvent,
    reopenPending,
    isReady,
    openedEditors,
    storedHistory,
    excluded,
    disposed,
    restored,
    stickyCount,
    groupEditors,
    recentlyUsedEditorsStack,
    recentlyUsedEditorsStackIndex,
    recentlyUsedEditorsInGroupStack,
    recentlyUsedEditorsInGroupStackIndex,
    navigatingInRecentlyUsedEditorsStack,
    navigatingInRecentlyUsedEditorsInGroupStack,
    recentlyUsedPending,
    recentlyUsedInGroupPending,
    lastOpen,
    lastEvent,
    backForward,
    budget

navVars ==
    <<editorNavigationStack, editorNavigationStackIndex, lastEditorNavigationStackIndex,
      navigatingInEditorStack, currentEditorSelectionState,
      editorNavigationStackListeners, navigatePending>>

activeVars == <<lastActiveEditor, lastEditLocation>>

histVars == <<history, historyLoaded, editorHistoryListeners, whenReadyPending>>

closedVars == <<recentlyClosedEditors, ignoreEditorCloseEvent, reopenPending>>

envVars ==
    <<isReady, openedEditors, storedHistory, excluded, disposed, restored,
      stickyCount, groupEditors>>

recentVars ==
    <<recentlyUsedEditorsStack, recentlyUsedEditorsStackIndex,
      recentlyUsedEditorsInGroupStack, recentlyUsedEditorsInGroupStackIndex,
      navigatingInRecentlyUsedEditorsStack, navigatingInRecentlyUsedEditorsInGroupStack,
      recentlyUsedPending, recentlyUsedInGroupPending>>

vars ==
    <<navVars, activeVars, histVars, closedVars, envVars, recentVars, lastOpen, lastEvent,
      backForward, budget>>

----------------------------------------------------------------------------
(* Program constants *)

MAX_EDITOR_NAVIGATION_STACK_ITEMS == 50

MAX_RECENTLY_CLOSED_EDITORS == 20

MAX_HISTORY_ITEMS == 200

(* Bounds of the model *)

\* events handled in one behaviour
MaxSteps == 4

\* open calls of one kind that may be in flight at once
MaxPending == 2

\* events handled in a run of SpecFlags
MaxFlagSteps == 6

\* events handled in one behaviour of SpecReplay
MaxReplaySteps == 7

\* events handled in one behaviour of SpecHist
MaxHistSteps == 3

\* events handled in one behaviour of SpecClosed
MaxClosedSteps == 4

\* events handled in one behaviour of SpecService
MaxServiceSteps == 4

----------------------------------------------------------------------------
(* Resources (URIs), as pairs <<path, number>>; NoRes is `undefined'.        *)

NoRes == <<"undefined", 0>>

FileA == <<"file:/a", 0>>

FileB == <<"file:/b", 0>>

\* a resource of a scheme preferResourceEditorInput accepts, for which no
\* file system provider is registered
RemoteFile == <<"vscode-remote:/r", 0>>

\* a resource of a scheme outside the allow-list of preferResourceEditorInput
CustomDoc == <<"custom:/c", 0>>

Folder == <<"file:/dir", 0>>

FileInFolder == <<"file:/dir/f", 0>>

\* further local files file:/n/1, file:/n/2, ...
Filler(n) == <<"file:/n", n>>

ValidScheme(resource) == resource # NoRes /\ resource # CustomDoc

HasProvider(resource) == resource # RemoteFile

IsEqual(a, b) == a = b

\* extUri.isEqualOrParent(base, parentCandidate)
IsEqualOrParent(base, parentCandidate) ==
    \/ base = parentCandidate
    \/ base = FileInFolder /\ parentCandidate = Folder

----------------------------------------------------------------------------
(* Editor references: a live handle (EditorInput), a resource descriptor    *)
(* (IResourceEditorInput) or another untyped input.                         *)

NoId == "none"

Input(e) == [kind |-> "input", id |-> e, resource |-> NoRes, override |-> NoId]

Descriptor(r, o) == [kind |-> "res", id |-> "none", resource |-> r, override |-> o]

UntypedOther(e) == [kind |-> "untyped", id |-> e, resource |-> NoRes, override |-> NoId]

Undefined == [kind |-> "undefined", id |-> "none", resource |-> NoRes, override |-> NoId]

isEditorInput(x) == x.kind = "input"

isResourceEditorInput(x) == x.kind = "res"

(* The live handles of the model *)
Editors == {"fileA", "fileB", "remote", "custom", "inFolder", "sideBySide", "hexA"}

\* EditorInput.resource
EditorResource(e) ==
    CASE e = "fileA" -> FileA
      [] e = "hexA" -> FileA
      [] e = "fileB" -> FileB
      [] e = "remote" -> RemoteFile
      [] e = "custom" -> CustomDoc
      [] e = "inFolder" -> FileInFolder
      [] OTHER -> NoRes

\* EditorInput.editorId
EditorId(e) ==
    CASE e = "custom" -> "customEditor"
      [] e = "hexA" -> "hexEditor"
      [] e = "sideBySide" -> NoId
      [] OTHER -> "default"

isSideBySideEditorInput(e) == e = "sideBySide"

Primary(e) == "fileA"

Secondary(e) == "fileB"

\* EditorInput.toUntyped()
ToUntyped(e) ==
    CASE e = "custom" -> Undefined
      [] e = "sideBySide" -> UntypedOther(e)
      [] OTHER -> Descriptor(EditorResource(e), EditorId(e))

\* EditorInput.matches(other) between two live handles
EditorMatches(a, b) == a = b

\* isEditorPaneWithSelection(pane) for the pane that shows editor e
SelectionAware(e) == e \in {"fileA", "fileB", "remote", "inFolder"}

\* EditorResourceAccessor.getOriginalUri(editor)
OriginalUri(x) == IF isEditorInput(x) THEN EditorResource(x.id) ELSE x.resource

----------------------------------------------------------------------------
(* Selections *)

NoSel == 0

Selections == 1 .. 3

\* IEditorPaneSelection.compare
Compare(a, b) ==
    IF a = b THEN "IDENTICAL"
    ELSE IF a - b \in {-1, 1} THEN "SIMILAR"
    ELSE "DIFFERENT"

NoReason == "undefined"

NoState == [editor |-> "none", selection |-> NoSel, reason |-> NoReason]

EditorSelectionState(e, s, r) == [editor |-> e, selection |-> s, reason |-> r]

\* justifiesNewNavigationEntry that takes a different selection for the same place
justifiesNewNavigationEntryIgnoringCompare(this, other) ==
    IF other.reason = "NAVIGATION" THEN TRUE
    ELSE IF ~EditorMatches(this.editor, other.editor) THEN TRUE
    ELSE this.selection = NoSel \/ other.selection = NoSel

justifiesNewNavigationEntry(this, other) ==
    IF other.reason = "NAVIGATION" THEN TRUE
    ELSE IF ~EditorMatches(this.editor, other.editor) THEN TRUE
    ELSE IF this.selection = NoSel \/ other.selection = NoSel THEN TRUE
    ELSE Compare(other.selection, this.selection) = "DIFFERENT"

----------------------------------------------------------------------------
(* File events *)

\* FileChangesEvent that reports resource r as deleted
FilesDeleted(r) == [kind |-> "filesChange", resource |-> r]

\* FileOperationEvent DELETE of r
DeleteOperation(r) == [kind |-> "fileOp", op |-> "DELETE", resource |-> r, target |-> NoRes]

\* FileOperationEvent MOVE of r to t (a file)
MoveOperation(r, t) == [kind |-> "fileOp", op |-> "MOVE", resource |-> r, target |-> t]

\* FileChangesEvent.contains(resource, FileChangeType.DELETED)
EventContainsDeleted(event, resource) == event.resource = resource

\* a variant that compares a file operation's resource for equality only
matchesFileExact(resource, arg2) ==
    CASE arg2.kind = "filesChange" -> EventContainsDeleted(arg2, resource)
      [] arg2.kind = "fileOp" -> IsEqual(resource, arg2.resource)
      [] arg2.kind = "input" ->
            LET inputResource == EditorResource(arg2.id)
            IN  IF inputResource = NoRes THEN FALSE
                ELSE IF restored /\ ~HasProvider(inputResource) THEN FALSE
                ELSE IsEqual(inputResource, resource)
      [] OTHER -> IsEqual(arg2.resource, resource)

\* a variant that asks for a provider before the lifecycle is Restored, not after
matchesFileGatedBeforeRestore(resource, arg2) ==
    CASE arg2.kind = "filesChange" -> EventContainsDeleted(arg2, resource)
      [] arg2.kind = "fileOp" -> IsEqualOrParent(resource, arg2.resource)
      [] arg2.kind = "input" ->
            LET inputResource == EditorResource(arg2.id)
            IN  IF inputResource = NoRes THEN FALSE
                ELSE IF ~restored /\ ~HasProvider(inputResource) THEN FALSE
                ELSE IsEqual(inputResource, resource)
      [] OTHER -> IsEqual(arg2.resource, resource)

matchesFile(resource, arg2) ==
    CASE arg2.kind = "filesChange" -> EventContainsDeleted(arg2, resource)
      [] arg2.kind = "fileOp" -> IsEqualOrParent(resource, arg2.resource)
      [] arg2.kind = "input" ->
            LET inputResource == EditorResource(arg2.id)
            IN  IF inputResource = NoRes THEN FALSE
                ELSE IF restored /\ ~HasProvider(inputResource) THEN FALSE
                ELSE IsEqual(inputResource, resource)
      [] OTHER -> IsEqual(arg2.resource, resource)

matches(arg1, inputB) ==
    IF arg1.kind \in {"filesChange", "fileOp"}
    THEN IF isEditorInput(inputB) THEN FALSE
         ELSE IF arg1.kind = "filesChange" THEN EventContainsDeleted(arg1, inputB.resource)
         ELSE matchesFile(inputB.resource, arg1)
    ELSE IF isEditorInput(arg1)
    THEN IF isEditorInput(inputB) THEN EditorMatches(arg1.id, inputB.id)
         ELSE matchesFile(inputB.resource, arg1)
    ELSE IF isEditorInput(inputB) THEN matchesFile(arg1.resource, inputB)
    ELSE IsEqual(arg1.resource, inputB.resource)

preferResourceEditorInput(editor) ==
    LET resource == OriginalUri(editor)
    IN  IF ValidScheme(resource)
        THEN IF isEditorInput(editor) /\ isResourceEditorInput(ToUntyped(editor.id))
             THEN ToUntyped(editor.id)
             ELSE editor
        ELSE IF isEditorInput(editor) THEN editor ELSE Undefined

\* clearOnEditorDispose(editor, map): the map's keys afterwards
clearOnEditorDispose(editor, map) ==
    IF isEditorInput(editor) THEN map \ {editor.id} ELSE map

\* onEditorDispose(editor, listener, map): the map's keys afterwards
onEditorDispose(e, map) == map \cup {e}

----------------------------------------------------------------------------
(* Navigation stack (go back / go forward).  The operators below take and  *)
(* give the record [stack, index, last, listeners] of the stack, its       *)
(* cursor, the previous cursor and the keys of the listener map.           *)

NoEntry == [editor |-> Undefined, selection |-> NoSel]

Entry(editor, selection) == [editor |-> editor, selection |-> selection]

NavState ==
    [stack |-> editorNavigationStack,
     index |-> editorNavigationStackIndex,
     last |-> lastEditorNavigationStackIndex,
     listeners |-> editorNavigationStackListeners]

\* this.editorNavigationStack[i], undefined out of range
StackAt(stack, i) == IF i >= 0 /\ i < Len(stack) THEN stack[i + 1] ELSE NoEntry

setIndex(n, value) == [n EXCEPT !.last = n.index, !.index = value]

\* a variant that never lets an entry with a selection be replaced
shouldNeverReplaceEditorPaneSelection(stackEntry, newSelection) ==
    stackEntry.selection = NoSel

shouldReplaceEditorPaneSelection(stackEntry, newSelection) ==
    IF stackEntry.selection = NoSel THEN TRUE
    ELSE IF newSelection = NoSel THEN FALSE
    ELSE Compare(stackEntry.selection, newSelection) = "IDENTICAL"

\* the listener map after clearOnEditorDispose of each entry of `removed'
ClearRemoved(removed, map) ==
    map \ {removed[i].editor.id : i \in {j \in 1 .. Len(removed) : isEditorInput(removed[j].editor)}}

\* PushEntry without the limit check
PushEntryUnbounded(n, entry) ==
    LET kept == IF Len(n.stack) > n.index + 1 THEN SubSeq(n.stack, 1, n.index + 1) ELSE n.stack
        cut == IF Len(n.stack) > n.index + 1
               THEN SubSeq(n.stack, n.index + 2, Len(n.stack)) ELSE <<>>
    IN  [removed |-> cut,
         nav |-> setIndex([n EXCEPT !.stack = Append(kept, entry)], n.index + 1)]

\* PushEntry that inserts after the cursor and keeps what follows it
PushEntryNoTruncation(n, entry) ==
    LET inserted == SubSeq(n.stack, 1, n.index + 1) \o <<entry>>
                    \o SubSeq(n.stack, n.index + 2, Len(n.stack))
    IN  IF Len(inserted) > MAX_EDITOR_NAVIGATION_STACK_ITEMS
        THEN [removed |-> <<Head(inserted)>>,
              nav |-> [n EXCEPT !.stack = Tail(inserted),
                                !.last = IF n.last >= 0 THEN n.last - 1 ELSE n.last]]
        ELSE [removed |-> <<>>,
              nav |-> setIndex([n EXCEPT !.stack = inserted], n.index + 1)]

\* PushEntry that leaves the previous cursor alone when the first entry goes
PushEntryKeepingLast(n, entry) ==
    LET kept == IF Len(n.stack) > n.index + 1 THEN SubSeq(n.stack, 1, n.index + 1) ELSE n.stack
        cut == IF Len(n.stack) > n.index + 1
               THEN SubSeq(n.stack, n.index + 2, Len(n.stack)) ELSE <<>>
        inserted == Append(kept, entry)
    IN  IF Len(inserted) > MAX_EDITOR_NAVIGATION_STACK_ITEMS
        THEN [removed |-> Append(cut, Head(inserted)),
              nav |-> [n EXCEPT !.stack = Tail(inserted)]]
        ELSE [removed |-> cut,
              nav |-> setIndex([n EXCEPT !.stack = inserted], n.index + 1)]

\* the push branch: truncate beyond the cursor, insert, bound
PushEntry(n, entry) ==
    LET kept == IF Len(n.stack) > n.index + 1 THEN SubSeq(n.stack, 1, n.index + 1) ELSE n.stack
        cut == IF Len(n.stack) > n.index + 1
               THEN SubSeq(n.stack, n.index + 2, Len(n.stack)) ELSE <<>>
        inserted == Append(kept, entry)
    IN  IF Len(inserted) > MAX_EDITOR_NAVIGATION_STACK_ITEMS
        THEN [removed |-> Append(cut, Head(inserted)),
              nav |-> [n EXCEPT !.stack = Tail(inserted),
                                !.last = IF n.last >= 0 THEN n.last - 1 ELSE n.last]]
        ELSE [removed |-> cut,
              nav |-> setIndex([n EXCEPT !.stack = inserted], n.index + 1)]

\* the replace branch: overwrite the entry at the cursor
ReplaceEntry(n, entry) ==
    [removed |-> <<n.stack[n.index + 1]>>,
     nav |-> [n EXCEPT !.stack[n.index + 1] = entry]]

doAddOrReplaceInEditorNavigationStack(n, editor, selection, forceReplace) ==
    LET currentEntry == StackAt(n.stack, n.index)
        replace ==
            /\ currentEntry # NoEntry
            /\ \/ forceReplace
               \/ /\ matches(currentEntry.editor, editor)
                  /\ shouldReplaceEditorPaneSelection(currentEntry, selection)
        stackEditorInput == preferResourceEditorInput(editor)
        entry == Entry(stackEditorInput, selection)
        res == IF replace THEN ReplaceEntry(n, entry) ELSE PushEntry(n, entry)
        cleared == ClearRemoved(res.removed, res.nav.listeners)
    IN  IF stackEditorInput = Undefined THEN n
        ELSE [res.nav EXCEPT !.listeners =
                 IF isEditorInput(stackEditorInput)
                 THEN onEditorDispose(stackEditorInput.id, cleared)
                 ELSE cleared]

addToEditorNavigationStack(n, editor, selection) ==
    IF ~navigatingInEditorStack
    THEN doAddOrReplaceInEditorNavigationStack(n, editor, selection, FALSE)
    ELSE n

\* a variant that replaces only where addToEditorNavigationStack would
replaceInEditorNavigationStackUnforced(n, editor, selection) ==
    IF ~navigatingInEditorStack
    THEN doAddOrReplaceInEditorNavigationStack(n, editor, selection, FALSE)
    ELSE n

replaceInEditorNavigationStack(n, editor, selection) ==
    IF ~navigatingInEditorStack
    THEN doAddOrReplaceInEditorNavigationStack(n, editor, selection, TRUE)
    ELSE n

\* a variant that leaves the cursors alone when no entry was removed
removeFromEditorNavigationStackIfRemoved(n, arg1) ==
    LET kept == SelectSeq(n.stack, LAMBDA en : ~matches(arg1, en.editor))
        removed == Len(kept) < Len(n.stack)
    IN  IF removed
        THEN [stack |-> kept, index |-> Len(kept) - 1, last |-> -1,
              listeners |-> clearOnEditorDispose(arg1, n.listeners)]
        ELSE n

removeFromEditorNavigationStack(n, arg1) ==
    LET kept == SelectSeq(n.stack, LAMBDA en : ~matches(arg1, en.editor))
        removed == Len(kept) < Len(n.stack)
    IN  [stack |-> kept,
         index |-> Len(kept) - 1,
         last |-> -1,
         listeners |-> IF removed THEN clearOnEditorDispose(arg1, n.listeners) ELSE n.listeners]

moveInEditorNavigationStack(n, event) ==
    LET after == removeFromEditorNavigationStack(n, event)
        removed == Len(after.stack) < Len(n.stack)
    IN  IF removed /\ event.target # NoRes
        THEN addToEditorNavigationStack(after, Descriptor(event.target, NoId), NoSel)
        ELSE after

\* a variant that adds to the stack during stack navigation as well
handleEventInEditorNavigationStackNavigating(n, e, sel, reason) ==
    LET usable == e # NoId /\ e \notin disposed
        aware == usable /\ SelectionAware(e)
    IN  [nav |-> IF usable
                 THEN doAddOrReplaceInEditorNavigationStack(n, Input(e), sel, FALSE)
                 ELSE n,
         current |-> IF aware THEN EditorSelectionState(e, sel, reason) ELSE NoState]

\* what handleEventInEditorNavigationStack(editorPane, event) leaves:
\* [nav, current], for the pane showing editor e (NoId: no pane) with
\* selection sel and the event's reason (NoReason for an editor change)
handleEventInEditorNavigationStack(n, e, sel, reason) ==
    LET usable == e # NoId /\ e \notin disposed
        aware == usable /\ SelectionAware(e)
        stateCandidate == EditorSelectionState(e, sel, reason)
    IN  IF navigatingInEditorStack
        THEN [nav |-> n, current |-> IF aware THEN stateCandidate ELSE NoState]
        ELSE IF aware
        THEN [nav |->
                IF \/ currentEditorSelectionState = NoState
                   \/ justifiesNewNavigationEntry(currentEditorSelectionState, stateCandidate)
                THEN addToEditorNavigationStack(n, Input(e), sel)
                ELSE replaceInEditorNavigationStack(n, Input(e), sel),
              current |-> stateCandidate]
        ELSE [nav |->
                IF usable /\ ~(StackAt(n.stack, n.index) # NoEntry
                               /\ matches(Input(e), StackAt(n.stack, n.index).editor))
                THEN addToEditorNavigationStack(n, Input(e), NoSel)
                ELSE n,
              current |-> NoState]

----------------------------------------------------------------------------
(* Global history.  The operators below take and give the record           *)
(* [entries, loaded, listeners, pending]: the list, whether this.history   *)
(* is defined, the keys of the listener map, and whether the hydration     *)
(* waits for editorGroupService.whenReady.                                 *)

HistState ==
    [entries |-> history,
     loaded |-> historyLoaded,
     listeners |-> editorHistoryListeners,
     pending |-> whenReadyPending]

\* includeInHistory(editor) when the exclude matcher matches the resources in x
IncludeUnder(x, editor) ==
    IF isEditorInput(editor) THEN TRUE ELSE editor.resource \notin x

includeInHistory(editor) == IncludeUnder(excluded, editor)

\* a variant that drops the head of the list on overflow
InsertInHistoryDroppingHead(h, editor, insertFirst) ==
    LET historyInput == preferResourceEditorInput(editor)
        inserted == IF insertFirst THEN <<historyInput>> \o h.entries
                    ELSE Append(h.entries, historyInput)
    IN  IF historyInput = Undefined THEN h
        ELSE [h EXCEPT !.entries = IF Len(inserted) > MAX_HISTORY_ITEMS
                                   THEN Tail(inserted) ELSE inserted]

\* addToHistory once this.history is defined
InsertInHistory(h, editor, insertFirst) ==
    LET historyInput == preferResourceEditorInput(editor)
        inserted == IF insertFirst THEN <<historyInput>> \o h.entries
                    ELSE Append(h.entries, historyInput)
        over == Len(inserted) > MAX_HISTORY_ITEMS
        bounded == IF over THEN SubSeq(inserted, 1, Len(inserted) - 1) ELSE inserted
        cleared == IF over THEN clearOnEditorDispose(inserted[Len(inserted)], h.listeners)
                   ELSE h.listeners
    IN  IF historyInput = Undefined THEN h
        ELSE [h EXCEPT !.entries = bounded,
                       !.listeners = IF isEditorInput(historyInput)
                                     THEN onEditorDispose(historyInput.id, cleared)
                                     ELSE cleared]

\* `${editor.resource.toString()}/${editor.editorId}`
HandledKey(resource, id) == <<resource, id>>

\* the first loop of loadHistory over the opened editors, least recently
\* used first: [h, handled]
RECURSIVE SeedOpened(_, _, _)
SeedOpened(h, lru, handled) ==
    IF lru = <<>> THEN [h |-> h, handled |-> handled]
    ELSE LET e == Head(lru)
         IN  IF ~includeInHistory(Input(e)) THEN SeedOpened(h, Tail(lru), handled)
             ELSE SeedOpened(InsertInHistory(h, Input(e), TRUE), Tail(lru),
                             IF EditorResource(e) # NoRes
                             THEN handled \cup {HandledKey(EditorResource(e), EditorId(e))}
                             ELSE handled)

\* the second loop of loadHistory over the stored entries, which are
\* resource descriptors: each one not handled is pushed at the end, and
\* popped again at once when the list is then over its bound
AppendStored(h, stored, handled) ==
    LET pushed == SelectSeq(stored, LAMBDA editor :
                      /\ HandledKey(editor.resource, editor.override) \notin handled
                      /\ preferResourceEditorInput(editor) # Undefined)
        room == MAX_HISTORY_ITEMS - Len(h.entries)
    IN  IF room <= 0 THEN h
        ELSE [h EXCEPT !.entries =
                 h.entries \o SubSeq(pushed, 1, IF Len(pushed) < room THEN Len(pushed) ELSE room)]

Reverse(seq) == [i \in 1 .. Len(seq) |-> seq[Len(seq) + 1 - i]]

loadHistoryStoredFirst(h) ==
    LET seeded == SeedOpened([h EXCEPT !.entries = <<>>], Reverse(openedEditors), {})
        stored == AppendStored([h EXCEPT !.entries = <<>>], storedHistory, seeded.handled)
    IN  [seeded.h EXCEPT !.entries =
            SubSeq(stored.entries \o seeded.h.entries, 1,
                   IF Len(stored.entries) + Len(seeded.h.entries) < MAX_HISTORY_ITEMS
                   THEN Len(stored.entries) + Len(seeded.h.entries)
                   ELSE MAX_HISTORY_ITEMS)]

loadHistory(h) ==
    LET seeded == SeedOpened([h EXCEPT !.entries = <<>>], Reverse(openedEditors), {})
    IN  AppendStored(seeded.h, storedHistory, seeded.handled)

ensureHistoryLoaded(h) ==
    IF h.loaded THEN h
    ELSE IF isReady THEN loadHistory([h EXCEPT !.loaded = TRUE, !.entries = <<>>])
    ELSE [h EXCEPT !.loaded = TRUE, !.entries = <<>>, !.pending = TRUE]

addToHistory(h, editor, insertFirst) ==
    InsertInHistory(ensureHistoryLoaded(h), editor, insertFirst)

removeFromHistory(h, arg1) ==
    LET l == ensureHistoryLoaded(h)
        kept == SelectSeq(l.entries, LAMBDA entry : ~matches(arg1, entry))
        removed == Len(kept) < Len(l.entries)
    IN  [l EXCEPT !.entries = kept,
                  !.listeners = IF removed THEN clearOnEditorDispose(arg1, l.listeners)
                                ELSE l.listeners]

\* the return value of removeFromHistory(arg1)
RemovesFromHistory(h, arg1) ==
    \E i \in 1 .. Len(ensureHistoryLoaded(h).entries) :
        matches(arg1, ensureHistoryLoaded(h).entries[i])

\* a variant that adds the entry without removing the existing ones
handleEditorEventInHistoryWithoutRemoval(h, e) ==
    IF e = NoId \/ e \in disposed \/ ~includeInHistory(Input(e)) THEN h
    ELSE addToHistory(ensureHistoryLoaded(h), Input(e), TRUE)

handleEditorEventInHistory(h, e) ==
    IF e = NoId \/ e \in disposed \/ ~includeInHistory(Input(e)) THEN h
    ELSE addToHistory(removeFromHistory(h, Input(e)), Input(e), TRUE)

\* a variant that filters by the resource of every entry, live handles too
removeExcludedFromHistoryByResource(h, x) ==
    LET l == ensureHistoryLoaded(h)
    IN  [l EXCEPT !.entries = SelectSeq(l.entries, LAMBDA entry : OriginalUri(entry) \notin x)]

\* removeExcludedFromHistory() once the matcher matches the resources in x
\* (clearOnEditorDispose acts on live handles only, which are never excluded)
removeExcludedFromHistory(h, x) ==
    LET l == ensureHistoryLoaded(h)
    IN  [l EXCEPT !.entries = SelectSeq(l.entries, LAMBDA entry : IncludeUnder(x, entry))]

\* a variant that adds the target whether or not an entry was removed
moveInHistoryAlwaysAdding(h, event) ==
    IF event.target # NoRes
    THEN addToHistory(removeFromHistory(h, event), Descriptor(event.target, NoId), TRUE)
    ELSE removeFromHistory(h, event)

moveInHistory(h, event) ==
    IF RemovesFromHistory(h, event) /\ event.target # NoRes
    THEN addToHistory(removeFromHistory(h, event), Descriptor(event.target, NoId), TRUE)
    ELSE removeFromHistory(h, event)

\* the loop of replaceInHistory: the entries before the first match of
\* editor, the replacements, the entries after it, without the matches of
\* editor and of the replacements: [list, replaced]
ReplaceLoop(entries, editor, replacements) ==
    LET hits == {i \in 1 .. Len(entries) : matches(editor, entries[i])}
        first == CHOOSE i \in hits : \A j \in hits : i <= j
        Kept(entry) ==
            /\ ~matches(editor, entry)
            /\ ~\E k \in 1 .. Len(replacements) : matches(replacements[k], entry)
    IN  IF hits = {} THEN [list |-> SelectSeq(entries, Kept), replaced |-> FALSE]
        ELSE [list |-> SelectSeq(SubSeq(entries, 1, first - 1), Kept) \o replacements
                       \o SelectSeq(SubSeq(entries, first + 1, Len(entries)), Kept),
              replaced |-> TRUE]

replaceInHistory(h, editor, replacements) ==
    LET l == ensureHistoryLoaded(h)
        done == ReplaceLoop(l.entries, editor, replacements)
    IN  [l EXCEPT !.entries = IF done.replaced THEN done.list ELSE done.list \o replacements,
                  !.listeners = IF done.replaced THEN clearOnEditorDispose(editor, l.listeners)
                                ELSE l.listeners]

updateHistoryOnEditorDispose(h, e) ==
    IF ~isSideBySideEditorInput(e) THEN removeFromHistory(h, Input(e))
    ELSE LET sideInputs == IF EditorMatches(Primary(e), Secondary(e))
                           THEN <<Primary(e)>> ELSE <<Primary(e), Secondary(e)>>
             candidates == [i \in 1 .. Len(sideInputs) |->
                               preferResourceEditorInput(Input(sideInputs[i]))]
         IN  replaceInHistory(h, Input(e), SelectSeq(candidates, isResourceEditorInput))

\* a variant that leaves the listener map as it is
clearRecentlyOpenedKeepingListeners(h) == [h EXCEPT !.entries = <<>>, !.loaded = TRUE]

clearRecentlyOpened(h) == [h EXCEPT !.entries = <<>>, !.loaded = TRUE, !.listeners = {}]

\* a variant that stores every entry
SavedEntriesWithHandles(entries) == entries

\* the value saveState stores
SavedEntries(entries) == SelectSeq(entries, isResourceEditorInput)

----------------------------------------------------------------------------
(* Recently closed editors *)

ClosedRecord(e, index, sticky) ==
    [editorId |-> EditorId(e),
     editor |-> ToUntyped(e),
     resource |-> OriginalUri(Input(e)),
     associatedResources |->
        IF isSideBySideEditorInput(e)
        THEN SelectSeq(<<EditorResource(Primary(e)), EditorResource(Secondary(e))>>,
                       LAMBDA r : r # NoRes)
        ELSE IF EditorResource(e) # NoRes THEN <<EditorResource(e)>> ELSE <<>>,
     index |-> index,
     sticky |-> sticky]

\* the filter predicate of removeFromRecentlyClosedEditors
KeepRecentlyClosed(recentlyClosedEditor, arg1) ==
    IF isEditorInput(arg1) /\ recentlyClosedEditor.editorId # EditorId(arg1.id) THEN TRUE
    ELSE IF /\ recentlyClosedEditor.resource # NoRes
            /\ matchesFile(recentlyClosedEditor.resource, arg1) THEN FALSE
    ELSE IF \E i \in 1 .. Len(recentlyClosedEditor.associatedResources) :
                matchesFile(recentlyClosedEditor.associatedResources[i], arg1) THEN FALSE
    ELSE TRUE

\* a variant that does not compare the editor identifiers
removeFromRecentlyClosedEditorsOfAnyKind(list, arg1) ==
    SelectSeq(list, LAMBDA rec :
        ~ \/ rec.resource # NoRes /\ matchesFile(rec.resource, arg1)
          \/ \E i \in 1 .. Len(rec.associatedResources) :
                 matchesFile(rec.associatedResources[i], arg1))

removeFromRecentlyClosedEditors(list, arg1) ==
    SelectSeq(list, LAMBDA rec : KeepRecentlyClosed(rec, arg1))

\* a variant that evicts the newest record on overflow
RecordClosedEvictingNewest(list, e, index, sticky) ==
    LET pushed == Append(removeFromRecentlyClosedEditors(list, Input(e)),
                         ClosedRecord(e, index, sticky))
    IN  IF Len(pushed) > MAX_RECENTLY_CLOSED_EDITORS
        THEN SubSeq(pushed, 1, MAX_RECENTLY_CLOSED_EDITORS) ELSE pushed

\* the list after onDidCloseEditor has passed its early returns
RecordClosed(list, e, index, sticky) ==
    LET pushed == Append(removeFromRecentlyClosedEditors(list, Input(e)),
                         ClosedRecord(e, index, sticky))
    IN  IF Len(pushed) > MAX_RECENTLY_CLOSED_EDITORS THEN Tail(pushed) ELSE pushed

\* IEditorGroup.isSticky(index) of the active group
IsSticky(index) == index < stickyCount

\* IEditorGroup.contains(untypedEditor) of the active group
GroupContains(untyped) == \E e \in groupEditors : ToUntyped(e) = untyped

NoOpen ==
    [kind |-> "none", editor |-> Undefined, selection |-> NoSel,
     pinned |-> FALSE, sticky |-> FALSE, hasIndex |-> FALSE, index |-> 0]

\* the openEditor call of doNavigate(location)
NavigateOpen(location) ==
    [kind |-> "navigate", editor |-> location.editor, selection |-> location.selection,
     pinned |-> FALSE, sticky |-> FALSE, hasIndex |-> FALSE, index |-> 0]

\* a variant that always passes the recorded index
ReopenOpenKeepingIndex(lastClosedEditor) ==
    [kind |-> "reopen", editor |-> lastClosedEditor.editor, selection |-> NoSel,
     pinned |-> TRUE, sticky |-> lastClosedEditor.sticky,
     hasIndex |-> TRUE, index |-> lastClosedEditor.index]

\* the options doReopenLastClosedEditor builds, and its openEditor call
ReopenOpen(lastClosedEditor) ==
    LET dropIndex ==
            \/ lastClosedEditor.sticky /\ ~IsSticky(lastClosedEditor.index)
            \/ ~lastClosedEditor.sticky /\ IsSticky(lastClosedEditor.index)
    IN  [kind |-> "reopen", editor |-> lastClosedEditor.editor, selection |-> NoSel,
         pinned |-> TRUE, sticky |-> lastClosedEditor.sticky,
         hasIndex |-> ~dropIndex, index |-> lastClosedEditor.index]

\* a variant that ends the request when the active group contains the record
reopenLastClosedEditorSkipping(list) ==
    IF list = <<>> THEN [list |-> list, issued |-> FALSE, open |-> NoOpen]
    ELSE LET lastClosedEditor == list[Len(list)]
             popped == SubSeq(list, 1, Len(list) - 1)
         IN  IF ~GroupContains(lastClosedEditor.editor)
             THEN [list |-> popped, issued |-> TRUE, open |-> ReopenOpen(lastClosedEditor)]
             ELSE [list |-> popped, issued |-> FALSE, open |-> NoOpen]

\* reopenLastClosedEditor up to its first await: records are popped until
\* one is not contained in the active group: [list, issued, open]
RECURSIVE reopenLastClosedEditor(_)
reopenLastClosedEditor(list) ==
    IF list = <<>> THEN [list |-> list, issued |-> FALSE, open |-> NoOpen]
    ELSE LET lastClosedEditor == list[Len(list)]
             popped == SubSeq(list, 1, Len(list) - 1)
         IN  IF ~GroupContains(lastClosedEditor.editor)
             THEN [list |-> popped, issued |-> TRUE, open |-> ReopenOpen(lastClosedEditor)]
             ELSE reopenLastClosedEditor(popped)

----------------------------------------------------------------------------
(* Recently used editors (next / previously used editor).  A stack is the  *)
(* record [defined, editors]: whether the field holds an array, and the    *)
(* identifiers [groupId, editor] of that array.                            *)

NoGroup == 0

\* the groups editorGroupService.getGroup finds
Groups == {1, 2}

NoRecentStack == [defined |-> FALSE, editors |-> <<>>]

\* editorService.getEditors(MOST_RECENTLY_ACTIVE): the opened editors, all
\* of them in group 1
MostRecentlyActive ==
    [i \in 1 .. Len(openedEditors) |-> [groupId |-> 1, editor |-> openedEditors[i]]]

\* group.getEditors(MOST_RECENTLY_ACTIVE) as identifiers of the group
GroupMostRecentlyActive(groupId) == IF groupId = 1 THEN MostRecentlyActive ELSE <<>>

\* typeof groupId !== 'number' || !this.editorGroupService.getGroup(groupId)
AcrossGroups(groupId) == groupId = NoGroup \/ groupId \notin Groups

\* a variant that leaves the adjusted index as it is
ensureRecentlyUsedStackUnclamped(delta, groupId) ==
    LET editors ==
            IF AcrossGroups(groupId)
            THEN IF recentlyUsedEditorsStack.defined THEN recentlyUsedEditorsStack.editors
                 ELSE MostRecentlyActive
            ELSE IF recentlyUsedEditorsInGroupStack.defined
                 THEN recentlyUsedEditorsInGroupStack.editors
                 ELSE GroupMostRecentlyActive(groupId)
        index == IF AcrossGroups(groupId) THEN recentlyUsedEditorsStackIndex
                 ELSE recentlyUsedEditorsInGroupStackIndex
    IN  [editors |-> editors, index |-> index + delta]

\* ensureRecentlyUsedStack(index => index + delta, groupId):
\* [editors, index], which it also stores
ensureRecentlyUsedStack(delta, groupId) ==
    LET editors ==
            IF AcrossGroups(groupId)
            THEN IF recentlyUsedEditorsStack.defined THEN recentlyUsedEditorsStack.editors
                 ELSE MostRecentlyActive
            ELSE IF recentlyUsedEditorsInGroupStack.defined
                 THEN recentlyUsedEditorsInGroupStack.editors
                 ELSE GroupMostRecentlyActive(groupId)
        index == IF AcrossGroups(groupId) THEN recentlyUsedEditorsStackIndex
                 ELSE recentlyUsedEditorsInGroupStackIndex
        moved == index + delta
        newIndex == IF moved < 0 THEN 0
                    ELSE IF moved > Len(editors) - 1 THEN Len(editors) - 1
                    ELSE moved
    IN  [editors |-> editors, index |-> newIndex]

\* the group.openEditor call of doNavigateInRecentlyUsedEditorsStack
RecentlyUsedOpen(editorIdentifier) ==
    [kind |-> "recentlyUsed", editor |-> Input(editorIdentifier.editor), selection |-> NoSel,
     pinned |-> FALSE, sticky |-> FALSE, hasIndex |-> FALSE, index |-> 0]

----------------------------------------------------------------------------
(* Actions: one per event handler or public operation *)

NoActive == [editor |-> NoId, groupId |-> 0]

SetNav(n) ==
    /\ editorNavigationStack' = n.stack
    /\ editorNavigationStackIndex' = n.index
    /\ lastEditorNavigationStackIndex' = n.last
    /\ editorNavigationStackListeners' = n.listeners

SetHist(h) ==
    /\ history' = h.entries
    /\ historyLoaded' = h.loaded
    /\ editorHistoryListeners' = h.listeners
    /\ whenReadyPending' = h.pending

\* backForward observes a back() and the forward() that follows it: the
\* cursor and the entry under it when back() was called
NoBackForward == [stage |-> "none", index |-> -1, entry |-> NoEntry]

\* an event is handled: one less to come
CountedRecent(event) ==
    /\ budget > 0
    /\ budget' = budget - 1
    /\ lastEvent' = event

\* an event of a handler outside the recently-used editor stacks, which it
\* leaves as they are
Counted(event) ==
    /\ CountedRecent(event)
    /\ UNCHANGED recentVars

Handled(event) ==
    /\ Counted(event)
    /\ backForward' = NoBackForward

\* onDidActiveEditorChange: the pane of group g showing editor e, whose
\* selection is sel, became active (e = NoId: no editor is active)
onDidActiveEditorChange(e, g, sel) ==
    /\ ~(lastActiveEditor # NoActive /\ e # NoId /\ lastActiveEditor.groupId = g
         /\ EditorMatches(lastActiveEditor.editor, e))
    /\ e = NoId => lastActiveEditor # NoActive /\ g = 0 /\ sel = NoSel
    /\ e # NoId => g # 0 /\ (sel # NoSel => SelectionAware(e))
    /\ Counted([op |-> "activeEditorChange", editor |-> e, groupId |-> g, selection |-> sel])
    /\ lastActiveEditor' = IF e = NoId THEN NoActive ELSE [editor |-> e, groupId |-> g]
    /\ SetHist(handleEditorEventInHistory(HistState, e))
    /\ LET r == handleEventInEditorNavigationStack(NavState, e, sel, NoReason)
       IN  SetNav(r.nav) /\ currentEditorSelectionState' = r.current
    /\ UNCHANGED <<navigatingInEditorStack, navigatePending, lastEditLocation,
                   closedVars, envVars, lastOpen>>

ActiveEditorChange(e, g, sel) ==
    /\ onDidActiveEditorChange(e, g, sel)
    /\ backForward' = NoBackForward

\* the debounced selection listener of the active pane
onDidChangeSelection(sel, reason) ==
    /\ lastActiveEditor # NoActive
    /\ SelectionAware(lastActiveEditor.editor)
    /\ Counted([op |-> "selectionChange", editor |-> lastActiveEditor.editor,
                selection |-> sel, reason |-> reason,
                stack |-> Len(editorNavigationStack)])
    /\ LET r == handleEventInEditorNavigationStack(NavState, lastActiveEditor.editor, sel, reason)
       IN  SetNav(r.nav) /\ currentEditorSelectionState' = r.current
    /\ lastEditLocation' =
          IF reason = "EDIT" /\ lastActiveEditor.editor \notin disposed
          THEN Entry(Input(lastActiveEditor.editor), sel)
          ELSE lastEditLocation
    /\ UNCHANGED <<navigatingInEditorStack, navigatePending, lastActiveEditor,
                   histVars, closedVars, envVars, lastOpen>>

SelectionChange(sel, reason) ==
    /\ onDidChangeSelection(sel, reason)
    /\ backForward' = NoBackForward

\* setIndex(value); navigate() up to the await
Navigate(op, value) ==
    /\ navigatePending < MaxPending
    /\ Counted([op |-> op, from |-> editorNavigationStackIndex])
    /\ backForward' =
          IF op = "back"
          THEN [stage |-> "back", index |-> editorNavigationStackIndex,
                entry |-> StackAt(editorNavigationStack, editorNavigationStackIndex)]
          ELSE IF op = "forward" /\ backForward.stage = "back"
          THEN [backForward EXCEPT !.stage = "forward"]
          ELSE NoBackForward
    /\ SetNav(setIndex(NavState, value))
    /\ navigatingInEditorStack' = TRUE
    /\ navigatePending' = navigatePending + 1
    /\ lastOpen' = NavigateOpen(StackAt(editorNavigationStack, value))
    /\ UNCHANGED <<currentEditorSelectionState, activeVars, histVars, closedVars, envVars>>

forward ==
    /\ Len(editorNavigationStack) > editorNavigationStackIndex + 1
    /\ Navigate("forward", editorNavigationStackIndex + 1)

back ==
    /\ editorNavigationStackIndex > 0
    /\ Navigate("back", editorNavigationStackIndex - 1)

last ==
    IF lastEditorNavigationStackIndex = -1
    THEN /\ editorNavigationStackIndex > 0
         /\ Navigate("last", editorNavigationStackIndex - 1)
    ELSE Navigate("last", lastEditorNavigationStackIndex)

\* the open call of navigate() settles (resolved or rejected): finally
NavigateSettled ==
    /\ navigatePending > 0
    /\ Counted([op |-> "navigateSettled"])
    /\ UNCHANGED backForward
    /\ navigatingInEditorStack' = FALSE
    /\ navigatePending' = navigatePending - 1
    /\ UNCHANGED <<editorNavigationStack, editorNavigationStackIndex,
                   lastEditorNavigationStackIndex, editorNavigationStackListeners,
                   currentEditorSelectionState, activeVars, histVars, closedVars,
                   envVars, lastOpen>>

\* a variant that leaves the recently closed editors alone
RemoveKeepingClosed(arg1) ==
    /\ SetHist(removeFromHistory(HistState, arg1))
    /\ SetNav(removeFromEditorNavigationStack(NavState, arg1))
    /\ recentlyClosedEditors' = recentlyClosedEditors

\* remove(arg1): history, navigation stack and recently closed editors
Remove(arg1) ==
    /\ SetHist(removeFromHistory(HistState, arg1))
    /\ SetNav(removeFromEditorNavigationStack(NavState, arg1))
    /\ recentlyClosedEditors' = removeFromRecentlyClosedEditors(recentlyClosedEditors, arg1)

\* onDidFilesChange(FileChangesEvent) with r deleted (the event notes the
\* lengths of the three lists before it)
FilesChangeDeleted(r) ==
    /\ Handled([op |-> "filesChange", resource |-> r,
                 stack |-> Len(editorNavigationStack), history |-> Len(history),
                 closed |-> Len(recentlyClosedEditors)])
    /\ Remove(FilesDeleted(r))
    /\ UNCHANGED <<navigatingInEditorStack, currentEditorSelectionState, navigatePending,
                   activeVars, ignoreEditorCloseEvent, reopenPending, envVars, lastOpen>>

\* onDidFilesChange(FileOperationEvent) of a DELETE of r
OperationDelete(r) ==
    /\ Handled([op |-> "operationDelete", resource |-> r])
    /\ Remove(DeleteOperation(r))
    /\ UNCHANGED <<navigatingInEditorStack, currentEditorSelectionState, navigatePending,
                   activeVars, ignoreEditorCloseEvent, reopenPending, envVars, lastOpen>>

\* a variant that handles a move to a folder as well
OperationMoveToAnyTarget(r, t, isFile) ==
    /\ Handled([op |-> "operationMove", resource |-> r, target |-> t, isFile |-> isFile])
    /\ SetHist(moveInHistory(HistState, MoveOperation(r, t)))
    /\ SetNav(moveInEditorNavigationStack(NavState, MoveOperation(r, t)))
    /\ UNCHANGED <<navigatingInEditorStack, currentEditorSelectionState, navigatePending,
                   activeVars, closedVars, envVars, lastOpen>>

\* onDidFilesChange(FileOperationEvent) of a MOVE of r to t, isFile telling
\* whether the target is a file (event.target.isFile): a move to a folder
\* is not handled
OperationMove(r, t, isFile) ==
    /\ Handled([op |-> "operationMove", resource |-> r, target |-> t, isFile |-> isFile])
    /\ SetHist(IF isFile THEN moveInHistory(HistState, MoveOperation(r, t)) ELSE HistState)
    /\ SetNav(IF isFile THEN moveInEditorNavigationStack(NavState, MoveOperation(r, t))
              ELSE NavState)
    /\ UNCHANGED <<navigatingInEditorStack, currentEditorSelectionState, navigatePending,
                   activeVars, closedVars, envVars, lastOpen>>

\* onDidOpenEditorFail
OpenEditorFail(e) ==
    /\ Handled([op |-> "openEditorFail", editor |-> e])
    /\ Remove(Input(e))
    /\ UNCHANGED <<navigatingInEditorStack, currentEditorSelectionState, navigatePending,
                   activeVars, ignoreEditorCloseEvent, reopenPending, envVars, lastOpen>>

\* editor e is disposed: the onWillDispose listeners still registered run
DisposeEditor(e) ==
    /\ e \notin disposed
    /\ Handled([op |-> "dispose", editor |-> e])
    /\ disposed' = disposed \cup {e}
    /\ IF e \in editorNavigationStackListeners
       THEN SetNav(removeFromEditorNavigationStack(NavState, Input(e)))
       ELSE SetNav(NavState)
    /\ IF e \in editorHistoryListeners
       THEN SetHist(updateHistoryOnEditorDispose(HistState, e))
       ELSE SetHist(HistState)
    /\ UNCHANGED <<navigatingInEditorStack, currentEditorSelectionState, navigatePending,
                   activeVars, closedVars, isReady, openedEditors, storedHistory,
                   excluded, restored, stickyCount, groupEditors, lastOpen>>

clear ==
    /\ Handled([op |-> "clear", stack |-> Len(editorNavigationStack),
                 history |-> Len(history), closed |-> Len(recentlyClosedEditors),
                 listeners |-> editorNavigationStackListeners \cup editorHistoryListeners])
    /\ SetHist(clearRecentlyOpened(HistState))
    /\ SetNav([stack |-> <<>>, index |-> -1, last |-> -1, listeners |-> {}])
    /\ recentlyClosedEditors' = <<>>
    /\ UNCHANGED <<navigatingInEditorStack, currentEditorSelectionState, navigatePending,
                   activeVars, ignoreEditorCloseEvent, reopenPending, envVars, lastOpen>>

RecentlyOpenedCleared ==
    /\ Handled([op |-> "clearRecentlyOpened"])
    /\ SetHist(clearRecentlyOpened(HistState))
    /\ UNCHANGED <<navVars, activeVars, closedVars, envVars, lastOpen>>

\* the public removeFromHistory(arg1)
HistoryRemove(arg1) ==
    /\ Handled([op |-> "removeFromHistory", editor |-> arg1])
    /\ SetHist(removeFromHistory(HistState, arg1))
    /\ UNCHANGED <<navVars, activeVars, closedVars, envVars, lastOpen>>

getHistory ==
    /\ Handled([op |-> "getHistory"])
    /\ SetHist(ensureHistoryLoaded(HistState))
    /\ UNCHANGED <<navVars, activeVars, closedVars, envVars, lastOpen>>

\* the exclude expression changes to the resources in x
ExcludesChange(x) ==
    /\ x # excluded
    /\ Handled([op |-> "excludesChange", excluded |-> x, history |-> Len(history)])
    /\ excluded' = x
    /\ SetHist(removeExcludedFromHistory(HistState, x))
    /\ UNCHANGED <<navVars, activeVars, closedVars, isReady, openedEditors, storedHistory,
                   disposed, restored, stickyCount, groupEditors, lastOpen>>

saveState ==
    /\ Handled([op |-> "saveState"])
    /\ storedHistory' = IF historyLoaded THEN SavedEntries(history) ELSE storedHistory
    /\ UNCHANGED <<navVars, activeVars, histVars, closedVars, isReady, openedEditors,
                   excluded, disposed, restored, stickyCount, groupEditors, lastOpen>>

\* a variant that keeps the list as it is when whenReady resolves
GroupsReadyKeepingEntries ==
    /\ ~isReady
    /\ Handled([op |-> "whenReady"])
    /\ isReady' = TRUE
    /\ SetHist([HistState EXCEPT !.pending = FALSE])
    /\ UNCHANGED <<navVars, activeVars, closedVars, openedEditors, storedHistory,
                   excluded, disposed, restored, stickyCount, groupEditors, lastOpen>>

\* editorGroupService.whenReady resolves
GroupsReady ==
    /\ ~isReady
    /\ Handled([op |-> "whenReady"])
    /\ isReady' = TRUE
    /\ IF whenReadyPending
       THEN SetHist([loadHistory(HistState) EXCEPT !.pending = FALSE])
       ELSE SetHist(HistState)
    /\ UNCHANGED <<navVars, activeVars, closedVars, openedEditors, storedHistory,
                   excluded, disposed, restored, stickyCount, groupEditors, lastOpen>>

\* the lifecycle reaches LifecyclePhase.Restored
LifecycleRestored ==
    /\ ~restored
    /\ Handled([op |-> "restored"])
    /\ restored' = TRUE
    /\ UNCHANGED <<navVars, activeVars, histVars, closedVars, isReady, openedEditors,
                   storedHistory, excluded, disposed, stickyCount, groupEditors, lastOpen>>

\* onDidCloseEditor
EditorClosed(e, context, index, sticky) ==
    /\ Handled([op |-> "closeEditor", editor |-> e, context |-> context,
                index |-> index, sticky |-> sticky,
                closed |-> Len(recentlyClosedEditors)])
    /\ recentlyClosedEditors' =
          IF ignoreEditorCloseEvent \/ context \in {"REPLACE", "MOVE"}
             \/ ToUntyped(e) = Undefined
          THEN recentlyClosedEditors
          ELSE RecordClosed(recentlyClosedEditors, e, index, sticky)
    /\ UNCHANGED <<navVars, activeVars, histVars, ignoreEditorCloseEvent, reopenPending,
                   envVars, lastOpen>>

\* what reopenLastClosedEditor() does up to its first await
Reopen(event) ==
    LET r == reopenLastClosedEditor(recentlyClosedEditors)
    IN  /\ r.issued => reopenPending < MaxPending
        /\ Handled(event)
        /\ recentlyClosedEditors' = r.list
        /\ ignoreEditorCloseEvent' = IF r.issued THEN TRUE ELSE ignoreEditorCloseEvent
        /\ reopenPending' = IF r.issued THEN reopenPending + 1 ELSE reopenPending
        /\ lastOpen' = IF r.issued THEN r.open ELSE lastOpen

ReopenLastClosedEditor ==
    /\ Reopen([op |-> "reopenLastClosedEditor", tail |->
                  IF recentlyClosedEditors = <<>> THEN <<>>
                  ELSE <<recentlyClosedEditors[Len(recentlyClosedEditors)]>>])
    /\ UNCHANGED <<navVars, activeVars, histVars, envVars>>

\* the open call of doReopenLastClosedEditor resolves with an editor pane
ReopenResolved ==
    /\ reopenPending > 0
    /\ Handled([op |-> "reopenResolved"])
    /\ ignoreEditorCloseEvent' = FALSE
    /\ reopenPending' = reopenPending - 1
    /\ UNCHANGED <<navVars, activeVars, histVars, recentlyClosedEditors, envVars, lastOpen>>

\* a variant that gives up after the first open that yields no pane
ReopenFailedWithoutRetry ==
    /\ reopenPending > 0
    /\ Handled([op |-> "reopenFailed"])
    /\ ignoreEditorCloseEvent' = FALSE
    /\ reopenPending' = reopenPending - 1
    /\ UNCHANGED <<navVars, activeVars, histVars, recentlyClosedEditors, envVars, lastOpen>>

\* the open call of doReopenLastClosedEditor resolves with no editor pane:
\* the next record is tried
ReopenFailed ==
    /\ reopenPending > 0
    /\ LET r == reopenLastClosedEditor(recentlyClosedEditors)
       IN  /\ Handled([op |-> "reopenFailed"])
           /\ recentlyClosedEditors' = r.list
           /\ ignoreEditorCloseEvent' = r.issued
           /\ reopenPending' = IF r.issued THEN reopenPending ELSE reopenPending - 1
           /\ lastOpen' = IF r.issued THEN r.open ELSE lastOpen
    /\ UNCHANGED <<navVars, activeVars, histVars, envVars>>

\* the editors or the sticky tabs of the active group change
ActiveGroupChange(count, editors) ==
    /\ <<count, editors>> # <<stickyCount, groupEditors>>
    /\ Handled([op |-> "activeGroupChange"])
    /\ stickyCount' = count
    /\ groupEditors' = editors
    /\ UNCHANGED <<navVars, activeVars, histVars, closedVars, isReady, openedEditors,
                   storedHistory, excluded, disposed, restored, lastOpen>>

\* openNextRecentlyUsedEditor (delta -1) and openPreviouslyUsedEditor
\* (delta 1) up to the await of doNavigateInRecentlyUsedEditorsStack
NavigateInRecentlyUsed(op, delta, groupId) ==
    LET r == ensureRecentlyUsedStack(delta, groupId)
        found == r.index >= 0 /\ r.index < Len(r.editors)
        across == AcrossGroups(groupId)
    IN  /\ (found /\ across) => recentlyUsedPending < MaxPending
        /\ (found /\ ~across) => recentlyUsedInGroupPending < MaxPending
        /\ CountedRecent([op |-> op, groupId |-> groupId, found |-> found,
                          from |-> IF across THEN recentlyUsedEditorsStackIndex
                                   ELSE recentlyUsedEditorsInGroupStackIndex,
                          length |-> Len(r.editors)])
        /\ backForward' = NoBackForward
        /\ IF across
           THEN /\ recentlyUsedEditorsStack' = [defined |-> TRUE, editors |-> r.editors]
                /\ recentlyUsedEditorsStackIndex' = r.index
                /\ navigatingInRecentlyUsedEditorsStack' =
                      IF found THEN TRUE ELSE navigatingInRecentlyUsedEditorsStack
                /\ recentlyUsedPending' =
                      IF found THEN recentlyUsedPending + 1 ELSE recentlyUsedPending
                /\ UNCHANGED <<recentlyUsedEditorsInGroupStack,
                               recentlyUsedEditorsInGroupStackIndex,
                               navigatingInRecentlyUsedEditorsInGroupStack,
                               recentlyUsedInGroupPending>>
           ELSE /\ recentlyUsedEditorsInGroupStack' = [defined |-> TRUE, editors |-> r.editors]
                /\ recentlyUsedEditorsInGroupStackIndex' = r.index
                /\ navigatingInRecentlyUsedEditorsInGroupStack' =
                      IF found THEN TRUE ELSE navigatingInRecentlyUsedEditorsInGroupStack
                /\ recentlyUsedInGroupPending' =
                      IF found THEN recentlyUsedInGroupPending + 1
                      ELSE recentlyUsedInGroupPending
                /\ UNCHANGED <<recentlyUsedEditorsStack, recentlyUsedEditorsStackIndex,
                               navigatingInRecentlyUsedEditorsStack, recentlyUsedPending>>
        /\ lastOpen' = IF found THEN RecentlyUsedOpen(r.editors[r.index + 1]) ELSE lastOpen
        /\ UNCHANGED <<navVars, activeVars, histVars, closedVars, envVars>>

openNextRecentlyUsedEditor(groupId) ==
    NavigateInRecentlyUsed("openNextRecentlyUsedEditor", -1, groupId)

openPreviouslyUsedEditor(groupId) ==
    NavigateInRecentlyUsed("openPreviouslyUsedEditor", 1, groupId)

\* a variant without the finally block
RecentlyUsedSettledKeepingFlag ==
    /\ recentlyUsedPending > 0
    /\ CountedRecent([op |-> "recentlyUsedSettled"])
    /\ recentlyUsedPending' = recentlyUsedPending - 1
    /\ UNCHANGED <<recentlyUsedEditorsStack, recentlyUsedEditorsStackIndex,
                   recentlyUsedEditorsInGroupStack, recentlyUsedEditorsInGroupStackIndex,
                   navigatingInRecentlyUsedEditorsStack,
                   navigatingInRecentlyUsedEditorsInGroupStack, recentlyUsedInGroupPending,
                   navVars, activeVars, histVars, closedVars, envVars, lastOpen, backForward>>

\* the open call of an across-groups navigation settles: finally
RecentlyUsedSettled ==
    /\ recentlyUsedPending > 0
    /\ CountedRecent([op |-> "recentlyUsedSettled"])
    /\ navigatingInRecentlyUsedEditorsStack' = FALSE
    /\ recentlyUsedPending' = recentlyUsedPending - 1
    /\ UNCHANGED <<recentlyUsedEditorsStack, recentlyUsedEditorsStackIndex,
                   recentlyUsedEditorsInGroupStack, recentlyUsedEditorsInGroupStackIndex,
                   navigatingInRecentlyUsedEditorsInGroupStack, recentlyUsedInGroupPending,
                   navVars, activeVars, histVars, closedVars, envVars, lastOpen, backForward>>

\* the open call of an in-group navigation settles: finally
RecentlyUsedInGroupSettled ==
    /\ recentlyUsedInGroupPending > 0
    /\ CountedRecent([op |-> "recentlyUsedInGroupSettled"])
    /\ navigatingInRecentlyUsedEditorsInGroupStack' = FALSE
    /\ recentlyUsedInGroupPending' = recentlyUsedInGroupPending - 1
    /\ UNCHANGED <<recentlyUsedEditorsStack, recentlyUsedEditorsStackIndex,
                   recentlyUsedEditorsInGroupStack, recentlyUsedEditorsInGroupStackIndex,
                   navigatingInRecentlyUsedEditorsStack, recentlyUsedPending,
                   navVars, activeVars, histVars, closedVars, envVars, lastOpen, backForward>>

\* a variant that keeps both sessions while either navigation is under way
MostRecentlyActiveEditorsChangeSharedFlag(cause) ==
    /\ cause = "global" => recentlyUsedPending > 0
    /\ cause = "inGroup" => recentlyUsedInGroupPending > 0
    /\ CountedRecent([op |-> "mostRecentlyActiveEditorsChange", cause |-> cause])
    /\ backForward' = NoBackForward
    /\ IF ~navigatingInRecentlyUsedEditorsStack /\ ~navigatingInRecentlyUsedEditorsInGroupStack
       THEN /\ recentlyUsedEditorsStack' = NoRecentStack
            /\ recentlyUsedEditorsStackIndex' = 0
            /\ recentlyUsedEditorsInGroupStack' = NoRecentStack
            /\ recentlyUsedEditorsInGroupStackIndex' = 0
       ELSE UNCHANGED <<recentlyUsedEditorsStack, recentlyUsedEditorsStackIndex,
                        recentlyUsedEditorsInGroupStack, recentlyUsedEditorsInGroupStackIndex>>
    /\ UNCHANGED <<navigatingInRecentlyUsedEditorsStack,
                   navigatingInRecentlyUsedEditorsInGroupStack,
                   recentlyUsedPending, recentlyUsedInGroupPending,
                   navVars, activeVars, histVars, closedVars, envVars, lastOpen>>

\* onDidMostRecentlyActiveEditorsChange: handleEditorEventInRecentEditorsStack.
\* The handler does not see what changed the order; cause tells it to the
\* observer: the open call of a pending across-groups navigation
\* ("global"), that of a pending in-group navigation ("inGroup"), or
\* anything else ("external")
MostRecentlyActiveEditorsChange(cause) ==
    /\ cause = "global" => recentlyUsedPending > 0
    /\ cause = "inGroup" => recentlyUsedInGroupPending > 0
    /\ CountedRecent([op |-> "mostRecentlyActiveEditorsChange", cause |-> cause])
    /\ backForward' = NoBackForward
    /\ IF ~navigatingInRecentlyUsedEditorsStack
       THEN recentlyUsedEditorsStack' = NoRecentStack /\ recentlyUsedEditorsStackIndex' = 0
       ELSE UNCHANGED <<recentlyUsedEditorsStack, recentlyUsedEditorsStackIndex>>
    /\ IF ~navigatingInRecentlyUsedEditorsInGroupStack
       THEN /\ recentlyUsedEditorsInGroupStack' = NoRecentStack
            /\ recentlyUsedEditorsInGroupStackIndex' = 0
       ELSE UNCHANGED <<recentlyUsedEditorsInGroupStack, recentlyUsedEditorsInGroupStackIndex>>
    /\ UNCHANGED <<navigatingInRecentlyUsedEditorsStack,
                   navigatingInRecentlyUsedEditorsInGroupStack,
                   recentlyUsedPending, recentlyUsedInGroupPending,
                   navVars, activeVars, histVars, closedVars, envVars, lastOpen>>

----------------------------------------------------------------------------
(* Initial states *)

\* the fields of the recently-used editor stacks right after construction
RecentlyUsedConstructed ==
    /\ recentlyUsedEditorsStack = NoRecentStack
    /\ recentlyUsedEditorsStackIndex = 0
    /\ recentlyUsedEditorsInGroupStack = NoRecentStack
    /\ recentlyUsedEditorsInGroupStackIndex = 0
    /\ navigatingInRecentlyUsedEditorsStack = FALSE
    /\ navigatingInRecentlyUsedEditorsInGroupStack = FALSE
    /\ recentlyUsedPending = 0
    /\ recentlyUsedInGroupPending = 0

\* the service right after construction, in the environment given
Constructed(ready, opened, stored, isRestored, sticky, inGroup) ==
    /\ editorNavigationStack = <<>>
    /\ editorNavigationStackIndex = -1
    /\ lastEditorNavigationStackIndex = -1
    /\ navigatingInEditorStack = FALSE
    /\ currentEditorSelectionState = NoState
    /\ editorNavigationStackListeners = {}
    /\ navigatePending = 0
    /\ lastActiveEditor = NoActive
    /\ lastEditLocation = NoEntry
    /\ history = <<>>
    /\ historyLoaded = FALSE
    /\ editorHistoryListeners = {}
    /\ whenReadyPending = FALSE
    /\ recentlyClosedEditors = <<>>
    /\ ignoreEditorCloseEvent = FALSE
    /\ reopenPending = 0
    /\ isReady = ready
    /\ openedEditors = opened
    /\ storedHistory = stored
    /\ excluded = {}
    /\ disposed = {}
    /\ restored = isRestored
    /\ stickyCount = sticky
    /\ groupEditors = inGroup
    /\ RecentlyUsedConstructed
    /\ lastOpen = NoOpen
    /\ lastEvent = [op |-> "init"]
    /\ backForward = NoBackForward

\* the editor activated by the i-th of n alternating activations
Alternating(i) == IF i % 2 = 1 THEN "fileA" ELSE "fileB"

\* the service after fileA and fileB were activated in turn, n times in
\* all, each showing selection 1, with the groups ready and nothing stored
AfterActivations(n, isRestored) ==
    /\ editorNavigationStack = [i \in 1 .. n |-> Entry(ToUntyped(Alternating(i)), 1)]
    /\ editorNavigationStackIndex = n - 1
    /\ lastEditorNavigationStackIndex = IF n = 0 THEN -1 ELSE n - 2
    /\ navigatingInEditorStack = FALSE
    /\ currentEditorSelectionState =
          IF n = 0 THEN NoState ELSE EditorSelectionState(Alternating(n), 1, NoReason)
    /\ editorNavigationStackListeners = {}
    /\ navigatePending = 0
    /\ lastActiveEditor = IF n = 0 THEN NoActive ELSE [editor |-> Alternating(n), groupId |-> 1]
    /\ lastEditLocation = NoEntry
    /\ history = [i \in 1 .. (IF n < 2 THEN n ELSE 2) |-> ToUntyped(Alternating(n + 1 - i))]
    /\ historyLoaded = (n > 0)
    /\ editorHistoryListeners = {}
    /\ whenReadyPending = FALSE
    /\ recentlyClosedEditors = <<>>
    /\ ignoreEditorCloseEvent = FALSE
    /\ reopenPending = 0
    /\ isReady = TRUE
    /\ openedEditors = <<>>
    /\ storedHistory = <<>>
    /\ excluded = {}
    /\ disposed = {}
    /\ restored = isRestored
    /\ stickyCount = 0
    /\ groupEditors = {}
    /\ RecentlyUsedConstructed
    /\ lastOpen = NoOpen
    /\ lastEvent = [op |-> "init"]
    /\ backForward = NoBackForward

----------------------------------------------------------------------------
(* The navigation stack under editor, selection, navigation, file and      *)
(* disposal events                                                         *)

\* stack sizes the behaviours start from
NavStarts == {0, 3, MAX_EDITOR_NAVIGATION_STACK_ITEMS - 1}

InitNav == budget = MaxSteps /\ \E n \in NavStarts : AfterActivations(n, TRUE)

NextNav ==
    \/ \E e \in {"fileA", "fileB", "remote"} : ActiveEditorChange(e, 1, 1)
    \/ ActiveEditorChange("custom", 1, NoSel)
    \/ \E sel \in Selections, reason \in {"USER", "NAVIGATION", "EDIT"} :
          SelectionChange(sel, reason)
    \/ forward
    \/ back
    \/ last
    \/ NavigateSettled
    \/ \E r \in {FileA, RemoteFile} : FilesChangeDeleted(r)
    \/ OperationDelete(FileB)
    \/ OperationMove(FileA, FileInFolder, TRUE)
    \/ OpenEditorFail("fileB")
    \/ DisposeEditor("custom")
    \/ clear

SpecNav == InitNav /\ [][NextNav]_vars

----------------------------------------------------------------------------
(* Properties of the navigation stack *)

\* an event was handled in this step
EventStep == budget' = budget - 1

\* C1: the navigation stack holds at most 50 entries and the cursor is
\* within [-1, length - 1], in every reachable state.
C1_StackBounded ==
    /\ Len(editorNavigationStack) <= MAX_EDITOR_NAVIGATION_STACK_ITEMS
    /\ editorNavigationStackIndex >= -1
    /\ editorNavigationStackIndex <= Len(editorNavigationStack) - 1

\* a push onto the full stack has evicted the oldest entry
C1_Witness ==
    /\ Len(editorNavigationStack) = MAX_EDITOR_NAVIGATION_STACK_ITEMS
    /\ editorNavigationStackIndex = MAX_EDITOR_NAVIGATION_STACK_ITEMS - 1
    /\ lastEvent.op \in {"activeEditorChange", "selectionChange"}
    /\ budget <= MaxSteps - 2
    /\ editorNavigationStack[1] = Entry(ToUntyped("fileB"), 1)

\* C8: an editor or selection event that moves the cursor from an index i
\* below the tail (a push) leaves entries 0..i as they were, discards every
\* entry beyond i, and puts the event's entry at i + 1, where the cursor is.
C8_BranchTruncation ==
    [][(/\ EventStep
        /\ lastEvent'.op \in {"activeEditorChange", "selectionChange"}
        /\ editorNavigationStackIndex < Len(editorNavigationStack) - 1
        /\ editorNavigationStackIndex' # editorNavigationStackIndex)
       => /\ editorNavigationStackIndex' = editorNavigationStackIndex + 1
          /\ editorNavigationStack' =
                Append(SubSeq(editorNavigationStack, 1, editorNavigationStackIndex + 1),
                       Entry(preferResourceEditorInput(Input(lastEvent'.editor)),
                             lastEvent'.selection))]_vars

\* [A, B, C] with the cursor at C, back(), then a push of D: [A, B, D]
C8_Witness ==
    /\ lastEvent.op = "activeEditorChange"
    /\ lastOpen.kind = "navigate"
    /\ lastOpen.editor = ToUntyped("fileB")
    /\ editorNavigationStackIndex = 2
    /\ editorNavigationStack =
          <<Entry(ToUntyped("fileA"), 1), Entry(ToUntyped("fileB"), 1),
            Entry(ToUntyped("remote"), 1)>>

\* two selection events in a row on the active editor, both with a
\* selection, handled while not navigating in the stack
TwoSelectionEvents ==
    /\ EventStep
    /\ lastEvent.op = "selectionChange"
    /\ lastEvent'.op = "selectionChange"
    /\ ~navigatingInEditorStack
    /\ lastEvent'.editor \notin disposed
    /\ lastEvent.selection # NoSel
    /\ lastEvent'.selection # NoSel

\* the second event's entry took the place of the entry at the cursor
OneEntry ==
    /\ editorNavigationStackIndex' = editorNavigationStackIndex
    /\ editorNavigationStack' =
          [editorNavigationStack EXCEPT ![editorNavigationStackIndex + 1] =
              Entry(preferResourceEditorInput(Input(lastEvent'.editor)), lastEvent'.selection)]

\* the second event's entry follows the first event's entry, at the cursor
TwoEntries ==
    LET n == Len(editorNavigationStack')
    IN  /\ n >= 2
        /\ editorNavigationStackIndex' = n - 1
        /\ editorNavigationStack'[n] =
              Entry(preferResourceEditorInput(Input(lastEvent'.editor)), lastEvent'.selection)
        /\ editorNavigationStack'[n - 1] =
              Entry(preferResourceEditorInput(Input(lastEvent.editor)), lastEvent.selection)
        /\ editorNavigationStack'[n - 1] = editorNavigationStack[editorNavigationStackIndex + 1]

\* C9 as claimed: IDENTICAL gives one entry for the two events, DIFFERENT two.
C9_AsClaimed ==
    [][TwoSelectionEvents =>
        /\ Compare(lastEvent'.selection, lastEvent.selection) = "IDENTICAL" => OneEntry
        /\ Compare(lastEvent'.selection, lastEvent.selection) = "DIFFERENT" => TwoEntries]_vars

\* the identity matcher matches editor e with the entry at the cursor
MatchesCursorEntry(e) ==
    matches(StackAt(editorNavigationStack, editorNavigationStackIndex).editor, Input(e))

\* C9, amended: IDENTICAL gives one entry unless the second event's reason
\* is NAVIGATION and the identity matcher does not match the editor with
\* its own entry at the cursor, when it gives two; DIFFERENT gives two.
C9_SelectionEntries ==
    [][TwoSelectionEvents =>
        /\ ( /\ Compare(lastEvent'.selection, lastEvent.selection) = "IDENTICAL"
             /\ (lastEvent'.reason # "NAVIGATION" \/ MatchesCursorEntry(lastEvent'.editor)) )
           => OneEntry
        /\ ( /\ Compare(lastEvent'.selection, lastEvent.selection) = "IDENTICAL"
             /\ lastEvent'.reason = "NAVIGATION"
             /\ ~MatchesCursorEntry(lastEvent'.editor) )
           => TwoEntries
        /\ Compare(lastEvent'.selection, lastEvent.selection) = "DIFFERENT" => TwoEntries]_vars

\* a DIFFERENT selection has been pushed after the first, and before that
\* an IDENTICAL one has replaced the entry at the cursor
C9_Witness ==
    /\ lastEvent.op = "selectionChange"
    /\ lastEvent.selection = 3
    /\ budget = MaxSteps - 3
    /\ ~navigatingInEditorStack
    /\ Len(editorNavigationStack) = 2
    /\ editorNavigationStack[1].selection = 1
    /\ editorNavigationStack[2].selection = 3

----------------------------------------------------------------------------
(* back() and forward() with the events their replays cause.  Opening the  *)
(* entry makes its editor the active one (an editor change, while the open *)
(* is pending) and makes the pane show the entry's selection (a selection  *)
(* event, debounced, so handled while the open is pending or after it).    *)

\* opening the entry of the last navigation shows editor e
ReplayTarget(e) ==
    /\ lastOpen.kind = "navigate"
    /\ lastOpen.editor \in {Input(e), ToUntyped(e)}

\* the selection the pane shows once the entry is open: the entry's, or
\* without one the selection the pane of e has of its own
ReplayShows(e, sel) ==
    IF lastOpen.selection # NoSel THEN sel = lastOpen.selection
    ELSE IF ~SelectionAware(e) THEN sel = NoSel
    ELSE IF /\ currentEditorSelectionState # NoState
            /\ currentEditorSelectionState.editor = e
            /\ currentEditorSelectionState.selection # NoSel
    THEN sel = currentEditorSelectionState.selection
    ELSE sel \in Selections

ReplayActivates(e, sel) ==
    /\ navigatePending > 0
    /\ ReplayTarget(e)
    /\ ReplayShows(e, sel)
    /\ onDidActiveEditorChange(e, 1, sel)
    /\ UNCHANGED backForward

ReplaySelection(sel, reason) ==
    /\ lastActiveEditor # NoActive
    /\ ReplayTarget(lastActiveEditor.editor)
    /\ ReplayShows(lastActiveEditor.editor, sel)
    /\ onDidChangeSelection(sel, reason)
    /\ UNCHANGED backForward

InitReplay == budget = MaxReplaySteps /\ \E n \in {0, 3} : AfterActivations(n, TRUE)

NextReplay ==
    \/ /\ lastOpen = NoOpen
       /\ \/ \E e \in {"fileA", "remote"} : ActiveEditorChange(e, 1, 1)
          \/ ActiveEditorChange("custom", 1, NoSel)
          \/ ActiveEditorChange("fileB", 1, NoSel)
          \/ SelectionChange(3, "USER")
    \/ back
    \/ forward
    \/ NavigateSettled
    \/ \E e \in Editors, sel \in Selections \cup {NoSel} : ReplayActivates(e, sel)
    \/ \E sel \in Selections, reason \in {"USER", "NAVIGATION"} : ReplaySelection(sel, reason)

SpecReplay == InitReplay /\ [][NextReplay]_vars

MatchesOwnEditor(entry) ==
    \A e \in Editors :
        entry.editor \in {Input(e), ToUntyped(e)} => matches(entry.editor, Input(e))

----------------------------------------------------------------------------
(* The global history under activation, hydration, file, exclusion,        *)
(* disposal and persistence events                                         *)

\* what a session that had n further local files in its history has stored
StoredFillers(n) == [i \in 1 .. n |-> Descriptor(Filler(i), "default")]

\* the environments the behaviours start in: whether the groups are ready,
\* whether the lifecycle has reached Restored, the opened editors most
\* recently active first (an editor opened in two groups is there twice),
\* and the stored history of the previous session
HistStarts ==
    { [ready |-> TRUE, restored |-> TRUE, opened |-> <<>>, stored |-> <<>>],
      [ready |-> TRUE, restored |-> TRUE, opened |-> <<>>,
       stored |-> StoredFillers(MAX_HISTORY_ITEMS - 1)],
      [ready |-> TRUE, restored |-> TRUE, opened |-> <<>>,
       stored |-> StoredFillers(MAX_HISTORY_ITEMS)],
      [ready |-> TRUE, restored |-> TRUE, opened |-> <<"fileA">>,
       stored |-> StoredFillers(MAX_HISTORY_ITEMS)],
      [ready |-> TRUE, restored |-> TRUE, opened |-> <<"fileA", "fileB", "fileA">>,
       stored |-> <<>>],
      [ready |-> TRUE, restored |-> FALSE, opened |-> <<"inFolder">>,
       stored |-> <<Descriptor(FileInFolder, NoId), Descriptor(FileA, "default")>>],
      [ready |-> FALSE, restored |-> FALSE, opened |-> <<"fileA">>,
       stored |-> <<Descriptor(FileA, "default"), Descriptor(FileB, "default")>>] }

InitHist ==
    /\ budget = MaxHistSteps
    /\ \E env \in HistStarts :
          Constructed(env.ready, env.opened, env.stored, env.restored, 0, {})

NextHist ==
    \/ \E e \in {"fileA", "fileB", "remote"} : ActiveEditorChange(e, 1, 1)
    \/ \E e \in {"fileA", "remote"} : ActiveEditorChange(e, 2, 1)
    \/ \E e \in {"custom", "sideBySide"} : ActiveEditorChange(e, 1, NoSel)
    \/ DisposeEditor("sideBySide")
    \/ OperationMove(FileA, FileB, TRUE)
    \/ FilesChangeDeleted(FileB)
    \/ OperationDelete(Folder)
    \/ HistoryRemove(Input("fileA"))
    \/ \E x \in {{}, {FileA}} : ExcludesChange(x)
    \/ GroupsReady
    \/ LifecycleRestored
    \/ saveState
    \/ getHistory
    \/ RecentlyOpenedCleared

SpecHist == InitHist /\ [][NextHist]_vars

----------------------------------------------------------------------------
(* Properties of the global history *)

\* C2 as claimed: the global history list holds at most 200 entries in
\* every reachable state.
C2_AsClaimed == Len(history) <= MAX_HISTORY_ITEMS

\* C3 as claimed: no two entries of the global history list match each
\* other under the identity matcher, in every reachable state.
C3_AsClaimed ==
    \A i, j \in 1 .. Len(history) : i < j => ~matches(history[i], history[j])

\* the step handles an activation of a live editor, and the history was
\* hydrated before it
ActivationStep ==
    /\ EventStep
    /\ lastEvent'.op = "activeEditorChange"
    /\ lastEvent'.editor # NoId
    /\ lastEvent'.editor \notin disposed
    /\ historyLoaded

\* the entry the history holds for the live editor e
HistoryInput(e) == preferResourceEditorInput(Input(e))

\* the indices of the entries of list that the matcher matches with e
MatchingEntries(list, e) == {i \in 1 .. Len(list) : matches(Input(e), list[i])}

\* the entries of list that the matcher does not match with e, in order
OtherEntries(list, e) == SelectSeq(list, LAMBDA entry : ~matches(Input(e), entry))

\* list without its last entry when it is longer than MAX_HISTORY_ITEMS
WithoutOverflow(list) ==
    IF Len(list) > MAX_HISTORY_ITEMS THEN SubSeq(list, 1, Len(list) - 1) ELSE list

\* the entries behind the first are the entries the list had that do not
\* match e, in their order, from the first of them on
OthersKeepOrder(e) ==
    /\ Len(history') >= 1
    /\ Len(history') - 1 <= Len(OtherEntries(history, e))
    /\ Tail(history') = SubSeq(OtherEntries(history, e), 1, Len(history') - 1)

\* the activation before this one was of the same editor
SecondActivation ==
    /\ lastEvent.op = "activeEditorChange"
    /\ lastEvent.editor = lastEvent'.editor

C5_TailDropped ==
    [][( /\ ActivationStep
         /\ Len(history) = MAX_HISTORY_ITEMS
         /\ MatchingEntries(history, lastEvent'.editor) = {} )
       => history' = <<HistoryInput(lastEvent'.editor)>>
                        \o SubSeq(history, 1, MAX_HISTORY_ITEMS - 1)]_vars

\* fileB and then fileA have been activated on a history hydrated with 200
\* stored entries: the two oldest are gone
C5_Witness ==
    /\ lastEvent.op = "activeEditorChange"
    /\ Len(history) = MAX_HISTORY_ITEMS
    /\ history[1] = ToUntyped("fileA")
    /\ history[2] = ToUntyped("fileB")
    /\ history[3] = Descriptor(Filler(1), "default")
    /\ history[MAX_HISTORY_ITEMS] = Descriptor(Filler(MAX_HISTORY_ITEMS - 2), "default")

----------------------------------------------------------------------------
(* Recently closed editors under close, reopen, group and file events *)

\* the record of the close of the editor of the local file Filler(k), which
\* was not sticky and at tab index 0
FillerRecord(k) ==
    [editorId |-> "default",
     editor |-> Descriptor(Filler(k), "default"),
     resource |-> Filler(k),
     associatedResources |-> <<Filler(k)>>,
     index |-> 0,
     sticky |-> FALSE]

\* the service after the editors of Filler(1) .. Filler(n) were closed in
\* turn, with the groups ready, the lifecycle Restored and nothing stored
AfterCloses(n) ==
    /\ editorNavigationStack = <<>>
    /\ editorNavigationStackIndex = -1
    /\ lastEditorNavigationStackIndex = -1
    /\ navigatingInEditorStack = FALSE
    /\ currentEditorSelectionState = NoState
    /\ editorNavigationStackListeners = {}
    /\ navigatePending = 0
    /\ lastActiveEditor = NoActive
    /\ lastEditLocation = NoEntry
    /\ history = <<>>
    /\ historyLoaded = FALSE
    /\ editorHistoryListeners = {}
    /\ whenReadyPending = FALSE
    /\ recentlyClosedEditors = [k \in 1 .. n |-> FillerRecord(k)]
    /\ ignoreEditorCloseEvent = FALSE
    /\ reopenPending = 0
    /\ isReady = TRUE
    /\ openedEditors = <<>>
    /\ storedHistory = <<>>
    /\ excluded = {}
    /\ disposed = {}
    /\ restored = TRUE
    /\ stickyCount = 0
    /\ groupEditors = {}
    /\ RecentlyUsedConstructed
    /\ lastOpen = NoOpen
    /\ lastEvent = [op |-> "init"]
    /\ backForward = NoBackForward

ClosedStarts == {0, MAX_RECENTLY_CLOSED_EDITORS - 1, MAX_RECENTLY_CLOSED_EDITORS}

\* the tab index and the sticky flag of the close events
ClosedTabs == {<<0, FALSE>>, <<3, FALSE>>, <<3, TRUE>>}

InitClosed == budget = MaxClosedSteps /\ \E n \in ClosedStarts : AfterCloses(n)

NextClosed ==
    \/ \E e \in {"fileA", "fileB"}, tab \in ClosedTabs :
          EditorClosed(e, "UNKNOWN", tab[1], tab[2])
    \/ \E e \in {"remote", "custom", "sideBySide", "hexA"} :
          EditorClosed(e, "UNKNOWN", 0, FALSE)
    \/ \E context \in {"REPLACE", "MOVE"} : EditorClosed("fileA", context, 0, FALSE)
    \/ ReopenLastClosedEditor
    \/ ReopenResolved
    \/ ReopenFailed
    \/ \E count \in {0, 4}, editors \in {{}, {"fileA"}} : ActiveGroupChange(count, editors)
    \/ FilesChangeDeleted(FileB)

SpecClosed == InitClosed /\ [][NextClosed]_vars

----------------------------------------------------------------------------
(* Properties of the recently closed editors *)

\* the step handles the close of an editor that has no record in the
\* buffer, not caused by a replacement or a move, while no reopen is pending
GenuineClose ==
    /\ EventStep
    /\ lastEvent'.op = "closeEditor"
    /\ lastEvent'.context \notin {"REPLACE", "MOVE"}
    /\ ~ignoreEditorCloseEvent
    /\ \A i \in 1 .. Len(recentlyClosedEditors) :
          recentlyClosedEditors[i].editor # ToUntyped(lastEvent'.editor)

\* the record of the close the step handles
CloseRecorded == ClosedRecord(lastEvent'.editor, lastEvent'.index, lastEvent'.sticky)

\* the last MAX_RECENTLY_CLOSED_EDITORS records of list
LastRecords(list) ==
    IF Len(list) > MAX_RECENTLY_CLOSED_EDITORS
    THEN SubSeq(list, Len(list) - MAX_RECENTLY_CLOSED_EDITORS + 1, Len(list))
    ELSE list

\* the step is a call of reopenLastClosedEditor() on a buffer with records
ReopenStep ==
    /\ EventStep
    /\ lastEvent'.op = "reopenLastClosedEditor"
    /\ recentlyClosedEditors # <<>>

\* the step takes the tail record off the buffer, and opens it unless the
\* active group contains it
PopsTail ==
    LET n == Len(recentlyClosedEditors)
    IN  /\ Len(recentlyClosedEditors') < n
        /\ recentlyClosedEditors' = SubSeq(recentlyClosedEditors, 1, Len(recentlyClosedEditors'))
        /\ ~GroupContains(recentlyClosedEditors[n].editor) =>
              /\ Len(recentlyClosedEditors') = n - 1
              /\ lastOpen'.kind = "reopen"
              /\ lastOpen'.editor = recentlyClosedEditors[n].editor

\* C6 as claimed: the buffer never holds more than 20 records; every
\* genuine close of an editor not yet in the buffer appends its record at
\* the tail, the oldest record leaving when there are then more than 20;
\* and reopenLastClosedEditor() pops the tail.
C6_AsClaimed ==
    /\ [](Len(recentlyClosedEditors) <= MAX_RECENTLY_CLOSED_EDITORS)
    /\ [][GenuineClose =>
            recentlyClosedEditors' = LastRecords(Append(recentlyClosedEditors, CloseRecorded))]_vars
    /\ [][ReopenStep => PopsTail]_vars

\* C6, amended: as claimed for the closed editors that have an untyped
\* projection; the close of an editor without one leaves the buffer as it
\* is.
C6_ClosedBuffer ==
    /\ [](Len(recentlyClosedEditors) <= MAX_RECENTLY_CLOSED_EDITORS)
    /\ [][GenuineClose =>
            IF ToUntyped(lastEvent'.editor) = Undefined
            THEN recentlyClosedEditors' = recentlyClosedEditors
            ELSE recentlyClosedEditors' =
                    LastRecords(Append(recentlyClosedEditors, CloseRecorded))]_vars
    /\ [][ReopenStep => PopsTail]_vars

\* fileA was closed after 20 other editors, then fileB, and
\* reopenLastClosedEditor() has popped fileB: the two oldest records are gone
C6_Witness ==
    /\ lastEvent.op = "reopenLastClosedEditor"
    /\ lastOpen.kind = "reopen"
    /\ lastOpen.editor = ToUntyped("fileB")
    /\ Len(recentlyClosedEditors) = MAX_RECENTLY_CLOSED_EDITORS - 1
    /\ recentlyClosedEditors[1] = FillerRecord(3)
    /\ recentlyClosedEditors[MAX_RECENTLY_CLOSED_EDITORS - 1].editor = ToUntyped("fileA")

\* the call of reopenLastClosedEditor() in this step issues an open
ReopenIssued ==
    /\ ReopenStep
    /\ reopenPending' = reopenPending + 1

\* C10: the open that reopenLastClosedEditor() issues is for the record it
\* popped last, which is the most recently closed one unless the active
\* group contains that; it is pinned, has the record's sticky flag, and
\* passes the record's tab index iff the record's sticky flag equals the
\* active group's isSticky(index); otherwise no index is passed.
C10_ReopenOptions ==
    [][ReopenIssued =>
        LET n == Len(recentlyClosedEditors)
            record == recentlyClosedEditors[Len(recentlyClosedEditors') + 1]
        IN  /\ ~GroupContains(recentlyClosedEditors[n].editor) => record = recentlyClosedEditors[n]
            /\ lastOpen'.kind = "reopen"
            /\ lastOpen'.editor = record.editor
            /\ lastOpen'.pinned
            /\ lastOpen'.sticky = record.sticky
            /\ lastOpen'.hasIndex <=> (record.sticky <=> IsSticky(record.index))
            /\ lastOpen'.hasIndex => lastOpen'.index = record.index]_vars

\* fileA, closed sticky at tab index 3, is reopened sticky at index 3 while
\* tab 3 of the active group is sticky
C10_Witness ==
    /\ lastEvent.op = "reopenLastClosedEditor"
    /\ lastOpen.kind = "reopen"
    /\ lastOpen.editor = ToUntyped("fileA")
    /\ lastOpen.sticky
    /\ lastOpen.hasIndex
    /\ lastOpen.index = 3
    /\ IsSticky(3)

----------------------------------------------------------------------------
(* The three lists together, under activations, closes, file events,       *)
(* disposal, removal and clear()                                           *)

InitService == budget = MaxServiceSteps /\ \E n \in {0, 3} : AfterActivations(n, TRUE)

NextService ==
    \/ ActiveEditorChange("fileA", 1, 1)
    \/ \E e \in {"custom", "sideBySide"}, g \in {1, 2} : ActiveEditorChange(e, g, NoSel)
    \/ SelectionChange(3, "USER")
    \/ \E e \in {"fileA", "sideBySide"} : EditorClosed(e, "UNKNOWN", 0, FALSE)
    \/ \E r \in {FileA, CustomDoc} : FilesChangeDeleted(r)
    \/ HistoryRemove(Descriptor(CustomDoc, NoId))
    \/ \E x \in {{}, {FileA, CustomDoc}} : ExcludesChange(x)
    \/ DisposeEditor("custom")
    \/ back
    \/ NavigateSettled
    \/ clear

SpecService == InitService /\ [][NextService]_vars

\* the step handles an external delete event
DeleteStep ==
    /\ EventStep
    /\ lastEvent'.op = "filesChange"

\* list without its live-handle entries
Descriptors(list) == SelectSeq(list, LAMBDA editor : ~isEditorInput(editor))

\* the live-handle entries of list
LiveHandles(list) == SelectSeq(list, isEditorInput)

\* the editor references of the navigation stack
StackEditors(stack) == [i \in 1 .. Len(stack) |-> stack[i].editor]

\* no descriptor of list has the resource r
NoDescriptorOf(list, r) ==
    \A i \in 1 .. Len(list) : ~isEditorInput(list[i]) => list[i].resource # r

\* no live handle of list has the resource r
NoLiveHandleOf(list, r) ==
    \A i \in 1 .. Len(list) : isEditorInput(list[i]) => EditorResource(list[i].id) # r

\* no closed record has r as its resource or among its associated resources
NoRecordOf(list, r) ==
    \A i \in 1 .. Len(list) :
        /\ list[i].resource # r
        /\ \A k \in 1 .. Len(list[i].associatedResources) : list[i].associatedResources[k] # r

\* C11 as claimed: the step that handles an external delete event for R
\* leaves no entry referencing R, descriptor or live handle, in the
\* navigation stack and in the history, and no closed record referencing R.
C11_AsClaimed ==
    [][DeleteStep =>
        /\ NoDescriptorOf(StackEditors(editorNavigationStack'), lastEvent'.resource)
        /\ NoLiveHandleOf(StackEditors(editorNavigationStack'), lastEvent'.resource)
        /\ NoDescriptorOf(history', lastEvent'.resource)
        /\ NoLiveHandleOf(history', lastEvent'.resource)
        /\ NoRecordOf(recentlyClosedEditors', lastEvent'.resource)]_vars

\* C11, amended: the one step that handles an external delete event for R
\* leaves no descriptor entry for R in the navigation stack and in the
\* history and no closed record referencing R; the live-handle entries of
\* the stack and of the history all stay, those whose resource is R too.
C11_DeleteRemoves ==
    [][DeleteStep =>
        /\ NoDescriptorOf(StackEditors(editorNavigationStack'), lastEvent'.resource)
        /\ NoDescriptorOf(history', lastEvent'.resource)
        /\ NoRecordOf(recentlyClosedEditors', lastEvent'.resource)
        /\ LiveHandles(StackEditors(editorNavigationStack'))
              = LiveHandles(StackEditors(editorNavigationStack))
        /\ historyLoaded => LiveHandles(history') = LiveHandles(history)]_vars

\* an external delete of fileA's resource has shortened the stack, the
\* history and the closed buffer, and left the custom editor's live handle
C11_Witness ==
    /\ lastEvent.op = "filesChange"
    /\ lastEvent.resource = FileA
    /\ lastEvent.stack > Len(editorNavigationStack)
    /\ lastEvent.history > Len(history)
    /\ lastEvent.closed > Len(recentlyClosedEditors)
    /\ \E i \in 1 .. Len(editorNavigationStack) : isEditorInput(editorNavigationStack[i].editor)

\* the step handles a change of the exclusion configuration on the
\* hydrated history
ExcludeStep ==
    /\ EventStep
    /\ lastEvent'.op = "excludesChange"
    /\ historyLoaded

\* the live handles among the entries of list whose resource is in x
ExcludedHandles(list, x) ==
    {list[i].id : i \in {j \in 1 .. Len(list) :
                            isEditorInput(list[j]) /\ OriginalUri(list[j]) \in x}}

\* C12 as claimed: the re-filter pass removes every entry whose resource
\* matches an exclude pattern, releases the disposal subscriptions of the
\* removed entries, and leaves the other entries in place, in their order.
C12_AsClaimed ==
    [][ExcludeStep =>
        /\ history' = SelectSeq(history, LAMBDA entry : OriginalUri(entry) \notin excluded')
        /\ editorHistoryListeners' =
              editorHistoryListeners \ ExcludedHandles(history, excluded')]_vars

\* C12, amended: the re-filter pass removes every descriptor entry whose
\* resource matches an exclude pattern and leaves every other entry in
\* place, in their order; live-handle entries stay whatever their resource,
\* and no disposal subscription is released.
C12_RefilterDescriptors ==
    [][ExcludeStep =>
        /\ history' = SelectSeq(history, LAMBDA entry :
                         isEditorInput(entry) \/ entry.resource \notin excluded')
        /\ editorHistoryListeners' = editorHistoryListeners]_vars

\* fileA's descriptor has left the history on the exclusion of its
\* resource, and the custom editor's live handle, excluded too, is still there
C12_Witness ==
    /\ lastEvent.op = "excludesChange"
    /\ excluded = {FileA, CustomDoc}
    /\ lastEvent.history > Len(history)
    /\ \E i \in 1 .. Len(history) : history[i] = Input("custom")
    /\ "custom" \in editorHistoryListeners
    /\ \A i \in 1 .. Len(history) : history[i] # ToUntyped("fileA")

\* C13: the step that handles clear() leaves the navigation stack empty
\* with cursor and last cursor at -1, the history empty, the recently
\* closed buffer empty, and no subscription in the two listener registries.
C13_ClearResets ==
    [][(EventStep /\ lastEvent'.op = "clear") =>
        /\ editorNavigationStack' = <<>>
        /\ editorNavigationStackIndex' = -1
        /\ lastEditorNavigationStackIndex' = -1
        /\ history' = <<>>
        /\ recentlyClosedEditors' = <<>>
        /\ editorNavigationStackListeners' = {}
        /\ editorHistoryListeners' = {}]_vars

\* clear() was called with entries in the three lists and subscriptions
\* registered
C13_Witness ==
    /\ lastEvent.op = "clear"
    /\ lastEvent.stack > 0
    /\ lastEvent.history > 0
    /\ lastEvent.closed > 0
    /\ lastEvent.listeners # {}
    /\ editorNavigationStack = <<>>
    /\ history = <<>>

\* C14: the step that handles the about-to-persist signal with the history
\* in use stores exactly the descriptor entries of the history, in the
\* history's order, no live handle among them, and leaves the history as
\* it is.
C14_SavesDescriptors ==
    [][(EventStep /\ lastEvent'.op = "saveState" /\ historyLoaded) =>
        /\ storedHistory' = SelectSeq(history, LAMBDA entry : entry.kind = "res")
        /\ \A i \in 1 .. Len(storedHistory') : storedHistory'[i].kind # "input"
        /\ history' = history
        /\ historyLoaded']_vars

\* the history [custom (live handle), fileA] has been saved as [fileA]
C14_Witness ==
    /\ lastEvent.op = "saveState"
    /\ history = <<Input("custom"), ToUntyped("fileA")>>
    /\ storedHistory = <<ToUntyped("fileA")>>

\* the live handles with a disposal subscription are those backing an entry
Subscribed(listeners, list) ==
    listeners = {list[i].id : i \in {j \in 1 .. Len(list) : isEditorInput(list[j])}}

\* C15 as claimed: in every state, for the navigation stack and for the
\* history separately, a live handle has a disposal subscription in the
\* list's registry if and only if an entry of the list is backed by it.
C15_AsClaimed ==
    /\ Subscribed(editorNavigationStackListeners, StackEditors(editorNavigationStack))
    /\ Subscribed(editorHistoryListeners, history)

----------------------------------------------------------------------------
(* Selection events handled outside stack navigation *)

\* a selection event of the active, non-disposed editor handled while not
\* navigating in the stack
SelectionStep ==
    /\ EventStep
    /\ lastEvent'.op = "selectionChange"
    /\ ~navigatingInEditorStack
    /\ lastEvent'.editor \notin disposed

\* the state candidate of the event being handled
Candidate == EditorSelectionState(lastEvent'.editor, lastEvent'.selection, lastEvent'.reason)

\* there is no current selection state, or it justifies a new entry
Justified ==
    \/ currentEditorSelectionState = NoState
    \/ justifiesNewNavigationEntry(currentEditorSelectionState, Candidate)

\* the entry the event stands for
EventEntry == Entry(preferResourceEditorInput(Input(lastEvent'.editor)), lastEvent'.selection)

\* the event's entry follows the entries up to the cursor and is the cursor's
Pushed ==
    LET inserted == Append(SubSeq(editorNavigationStack, 1, editorNavigationStackIndex + 1),
                           EventEntry)
    IN  /\ editorNavigationStack' =
              IF Len(inserted) > MAX_EDITOR_NAVIGATION_STACK_ITEMS THEN Tail(inserted)
              ELSE inserted
        /\ editorNavigationStackIndex' = Len(editorNavigationStack') - 1

\* the event's entry took the place of the entry at the cursor
Replaced ==
    /\ editorNavigationStackIndex >= 0
    /\ editorNavigationStack' =
          [editorNavigationStack EXCEPT ![editorNavigationStackIndex + 1] = EventEntry]
    /\ editorNavigationStackIndex' = editorNavigationStackIndex
    /\ Len(editorNavigationStack') = Len(editorNavigationStack)

SamePlaceAtCursor ==
    LET currentEntry == StackAt(editorNavigationStack, editorNavigationStackIndex)
    IN  /\ currentEntry # NoEntry
        /\ matches(currentEntry.editor, Input(lastEvent'.editor))
        /\ \/ currentEntry.selection = NoSel
           \/ /\ lastEvent'.selection # NoSel
              /\ Compare(currentEntry.selection, lastEvent'.selection) = "IDENTICAL"

----------------------------------------------------------------------------
(* Events handled during stack navigation *)

\* an active-editor-change or selection event handled while
\* navigatingInEditorStack is set
EventWhileNavigating ==
    /\ EventStep
    /\ lastEvent'.op \in {"activeEditorChange", "selectionChange"}
    /\ navigatingInEditorStack

\* the selection state of the now-active editor of the event
StateOfActive ==
    IF /\ lastEvent'.editor # NoId
       /\ lastEvent'.editor \notin disposed
       /\ SelectionAware(lastEvent'.editor)
    THEN EditorSelectionState(lastEvent'.editor, lastEvent'.selection,
                              IF lastEvent'.op = "selectionChange" THEN lastEvent'.reason
                              ELSE NoReason)
    ELSE NoState

\* C17: an active-editor-change or selection event handled while navigating
\* in the stack leaves the stack's entries, cursor, previous cursor and
\* subscriptions as they are and sets the current selection state to the
\* state of the now-active editor, or to none when that editor is not
\* selection-capable or is disposed.
C17_NavigatingFrame ==
    [][EventWhileNavigating =>
        /\ editorNavigationStack' = editorNavigationStack
        /\ editorNavigationStackIndex' = editorNavigationStackIndex
        /\ lastEditorNavigationStackIndex' = lastEditorNavigationStackIndex
        /\ editorNavigationStackListeners' = editorNavigationStackListeners
        /\ navigatingInEditorStack'
        /\ currentEditorSelectionState' = StateOfActive]_vars

\* a selection event handled during a navigation has set the current
\* selection state to a selection the entry at the cursor does not have
C17_Witness ==
    /\ lastEvent.op = "selectionChange"
    /\ navigatingInEditorStack
    /\ lastEvent.stack = Len(editorNavigationStack)
    /\ currentEditorSelectionState =
          EditorSelectionState(lastEvent.editor, lastEvent.selection, lastEvent.reason)
    /\ editorNavigationStackIndex >= 0
    /\ ~matches(editorNavigationStack[editorNavigationStackIndex + 1].editor,
                Input(lastEvent.editor))

----------------------------------------------------------------------------
(* The reentrancy flags of the three navigations: back/forward in the      *)
(* navigation stack, reopening a closed editor, next/previously used       *)
(* editor across groups and within a group                                 *)

InitFlags ==
    /\ budget = MaxFlagSteps
    /\ \E opened \in {<<>>, <<"fileA", "fileB">>} :
          Constructed(TRUE, opened, <<>>, TRUE, 0, {})

NextFlags ==
    \/ \E e \in {"fileA", "fileB"} : ActiveEditorChange(e, 1, 1)
    \/ back
    \/ forward
    \/ NavigateSettled
    \/ \E e \in {"fileA", "fileB"} : EditorClosed(e, "UNKNOWN", 0, FALSE)
    \/ ReopenLastClosedEditor
    \/ ReopenResolved
    \/ ReopenFailed
    \/ \E groupId \in {NoGroup, 1, 3} : openNextRecentlyUsedEditor(groupId)
    \/ \E groupId \in {NoGroup, 1, 2} : openPreviouslyUsedEditor(groupId)
    \/ RecentlyUsedSettled
    \/ RecentlyUsedInGroupSettled
    \/ \E cause \in {"external", "global", "inGroup"} :
          MostRecentlyActiveEditorsChange(cause)

SpecFlags == InitFlags /\ [][NextFlags]_vars

\* no open call guarded by a flag is pending only if the flag is false
FlagsFalseWhenIdle ==
    /\ navigatePending = 0 => ~navigatingInEditorStack
    /\ reopenPending = 0 => ~ignoreEditorCloseEvent
    /\ recentlyUsedPending = 0 => ~navigatingInRecentlyUsedEditorsStack
    /\ recentlyUsedInGroupPending = 0 => ~navigatingInRecentlyUsedEditorsInGroupStack

\* a step that issues a guarded open call leaves its flag set
FlagSetWithOpen ==
    /\ navigatePending' > navigatePending => navigatingInEditorStack'
    /\ reopenPending' > reopenPending => ignoreEditorCloseEvent'
    /\ recentlyUsedPending' > recentlyUsedPending => navigatingInRecentlyUsedEditorsStack'
    /\ recentlyUsedInGroupPending' > recentlyUsedInGroupPending =>
          navigatingInRecentlyUsedEditorsInGroupStack'

\* a step in which a guarded open call settles leaves its flag false,
\* unless the reopen handler went on to open the next closed record
FlagClearedWhenSettled ==
    /\ lastEvent'.op = "navigateSettled" => ~navigatingInEditorStack'
    /\ lastEvent'.op = "reopenResolved" => ~ignoreEditorCloseEvent'
    /\ lastEvent'.op = "reopenFailed" =>
          (ignoreEditorCloseEvent' <=>
              /\ reopenPending' = reopenPending
              /\ Len(recentlyClosedEditors') < Len(recentlyClosedEditors)
              /\ lastOpen'.kind = "reopen")
    /\ lastEvent'.op = "recentlyUsedSettled" => ~navigatingInRecentlyUsedEditorsStack'
    /\ lastEvent'.op = "recentlyUsedInGroupSettled" =>
          ~navigatingInRecentlyUsedEditorsInGroupStack'

\* C18: each reentrancy flag (navigatingInEditorStack, ignoreEditorCloseEvent,
\* navigatingInRecentlyUsedEditorsStack and ...InGroupStack) is set by the
\* step that issues its open call and false after the step in which that
\* call settles, whatever the outcome; and whenever no open call guarded by
\* a flag is pending, that flag is false.
C18_FlagsGuardOpens ==
    /\ []FlagsFalseWhenIdle
    /\ [][EventStep => (FlagSetWithOpen /\ FlagClearedWhenSettled)]_vars

\* the open of a reopen has settled with no pane and no record left to
\* try: no reopen is pending and ignoreEditorCloseEvent is false
C18_Witness ==
    /\ lastEvent.op = "reopenFailed"
    /\ lastOpen.kind = "reopen"
    /\ reopenPending = 0
    /\ ~ignoreEditorCloseEvent

\* C19 as claimed: navigatingInEditorStack is true in every state in which
\* an open call issued by back(), forward() or last() is pending, a second
\* request issued before the first has settled included.
C19_AsClaimed == navigatePending > 0 => navigatingInEditorStack

----------------------------------------------------------------------------
(* Pushes onto a full navigation stack *)

\* the entry at the cursor is of editor e and has no selection or one
\* IDENTICAL to sel
SamePlace(e, sel) ==
    LET currentEntry == StackAt(editorNavigationStack, editorNavigationStackIndex)
    IN  /\ currentEntry # NoEntry
        /\ matches(currentEntry.editor, Input(e))
        /\ \/ currentEntry.selection = NoSel
           \/ sel # NoSel /\ Compare(currentEntry.selection, sel) = "IDENTICAL"

\* an editor change or a selection event, handled while not navigating in
\* the stack, of an editor that is not disposed and that the handler adds
\* after the cursor
PushingEvent ==
    /\ EventStep
    /\ lastEvent'.op \in {"activeEditorChange", "selectionChange"}
    /\ ~navigatingInEditorStack
    /\ lastEvent'.editor # NoId
    /\ lastEvent'.editor \notin disposed
    /\ LET e == lastEvent'.editor
           sel == lastEvent'.selection
           reason == IF lastEvent'.op = "selectionChange" THEN lastEvent'.reason ELSE NoReason
       IN  IF SelectionAware(e)
           THEN /\ \/ currentEditorSelectionState = NoState
                   \/ justifiesNewNavigationEntry(currentEditorSelectionState,
                                                  EditorSelectionState(e, sel, reason))
                /\ ~SamePlace(e, sel)
           ELSE ~matches(Input(e),
                         StackAt(editorNavigationStack, editorNavigationStackIndex).editor)

\* the stack holds 50 entries and the cursor is on the last one
FullAtCursor ==
    /\ Len(editorNavigationStack) = MAX_EDITOR_NAVIGATION_STACK_ITEMS
    /\ editorNavigationStackIndex = MAX_EDITOR_NAVIGATION_STACK_ITEMS - 1

\* C20: a push that makes the navigation stack exceed 50 entries evicts
\* exactly the entry at index 0, the other entries keep their order, the new
\* entry is the tail with the cursor (49) on it, and the previous cursor is
\* decremented by one exactly when it was >= 0 and stays -1 otherwise.
C20_OverflowEvictsOldest ==
    [][(PushingEvent /\ FullAtCursor) =>
        /\ editorNavigationStack' =
              Append(Tail(editorNavigationStack),
                     Entry(preferResourceEditorInput(Input(lastEvent'.editor)),
                           lastEvent'.selection))
        /\ editorNavigationStackIndex' = MAX_EDITOR_NAVIGATION_STACK_ITEMS - 1
        /\ lastEditorNavigationStackIndex' =
              IF lastEditorNavigationStackIndex >= 0
              THEN lastEditorNavigationStackIndex - 1
              ELSE -1]_vars

\* a selection event has been pushed onto the full stack: the entry that
\* was at the cursor is now at index 48, the event's entry at index 49
C20_Witness ==
    /\ lastEvent.op = "selectionChange"
    /\ lastEvent.stack = MAX_EDITOR_NAVIGATION_STACK_ITEMS
    /\ Len(editorNavigationStack) = MAX_EDITOR_NAVIGATION_STACK_ITEMS
    /\ editorNavigationStackIndex = MAX_EDITOR_NAVIGATION_STACK_ITEMS - 1
    /\ editorNavigationStack[MAX_EDITOR_NAVIGATION_STACK_ITEMS].selection = lastEvent.selection
    /\ editorNavigationStack[MAX_EDITOR_NAVIGATION_STACK_ITEMS - 1].editor =
          editorNavigationStack[MAX_EDITOR_NAVIGATION_STACK_ITEMS].editor
    /\ editorNavigationStack[MAX_EDITOR_NAVIGATION_STACK_ITEMS - 1].selection # lastEvent.selection
    /\ lastEditorNavigationStackIndex = MAX_EDITOR_NAVIGATION_STACK_ITEMS - 3

----------------------------------------------------------------------------
(* Close events during a reopen *)

\* C21 as claimed: while an open call issued by reopenLastClosedEditor() is
\* pending, overlapping requests included, no editor-close event adds a
\* record to the recently-closed buffer or removes one from it.
C21_AsClaimed ==
    [][(EventStep /\ lastEvent'.op = "closeEditor" /\ reopenPending > 0) =>
        recentlyClosedEditors' = recentlyClosedEditors]_vars

\* the open of a reopen has resolved with no editor pane
NoPaneStep == EventStep /\ lastEvent'.op = "reopenFailed"

\* the handler issued the open of a further record
NextRecordTried == reopenPending' = reopenPending

TailContained ==
    /\ recentlyClosedEditors # <<>>
    /\ GroupContains(recentlyClosedEditors[Len(recentlyClosedEditors)].editor)

\* C23 as claimed: when the active group contains the editor of the most
\* recently closed record, the request issues no open call.
C23_AsClaimed ==
    [][(ReopenStep /\ TailContained) =>
        (reopenPending' = reopenPending /\ lastOpen' = lastOpen)]_vars

\* C23, amended: when the active group contains the editor of the most
\* recently closed record, that record is popped with no open issued for
\* it, and the request goes on to the most recent record the group does not
\* contain, which it opens; it issues no open only when the group contains
\* the editor of every record, and the buffer then ends empty.
C23_SkipsToNextRecord ==
    [][(ReopenStep /\ TailContained) =>
        LET n == Len(recentlyClosedEditors)
            m == Len(recentlyClosedEditors')
        IN  /\ m < n
            /\ recentlyClosedEditors' = SubSeq(recentlyClosedEditors, 1, m)
            /\ IF \E i \in 1 .. n : ~GroupContains(recentlyClosedEditors[i].editor)
               THEN /\ reopenPending' = reopenPending + 1
                    /\ lastOpen'.kind = "reopen"
                    /\ lastOpen'.editor = recentlyClosedEditors[m + 1].editor
                    /\ ~GroupContains(lastOpen'.editor)
                    /\ \A i \in m + 2 .. n : GroupContains(recentlyClosedEditors[i].editor)
               ELSE /\ m = 0
                    /\ reopenPending' = reopenPending
                    /\ lastOpen' = lastOpen]_vars

\* a request found the most recently closed record in the active group and
\* has issued the open of an earlier record
C23_Witness ==
    /\ lastEvent.op = "reopenLastClosedEditor"
    /\ lastEvent.tail # <<>>
    /\ GroupContains(lastEvent.tail[1].editor)
    /\ reopenPending = 1
    /\ lastOpen.kind = "reopen"
    /\ lastOpen.editor # lastEvent.tail[1].editor
    /\ Len(recentlyClosedEditors) = MAX_RECENTLY_CLOSED_EDITORS - 2

----------------------------------------------------------------------------
(* Records of the same resource in the recently closed editors *)

\* the step records the close of an editor: not caused by a replacement or
\* a move, not blocked by a reopen, of an editor with an untyped projection
RecordingClose ==
    /\ EventStep
    /\ lastEvent'.op = "closeEditor"
    /\ lastEvent'.context \notin {"REPLACE", "MOVE"}
    /\ ~ignoreEditorCloseEvent
    /\ ToUntyped(lastEvent'.editor) # Undefined

\* the record is of resource r, as its resource or as an associated one
RecordOf(rec, r) ==
    \/ rec.resource = r
    \/ \E i \in 1 .. Len(rec.associatedResources) : rec.associatedResources[i] = r

\* C24 as claimed: after the close of an editor with a resource has been
\* recorded, the new record is at the tail and it is the only record of the
\* buffer of that resource.
C24_AsClaimed ==
    [][(RecordingClose /\ EditorResource(lastEvent'.editor) # NoRes) =>
        LET n == Len(recentlyClosedEditors')
        IN  /\ n > 0
            /\ recentlyClosedEditors'[n] = CloseRecorded
            /\ \A i \in 1 .. n - 1 :
                  ~RecordOf(recentlyClosedEditors'[i], EditorResource(lastEvent'.editor))]_vars

\* the earlier records the close of editor e removes: those of the same
\* editor identifier and of the resource of e, when e has a resource and,
\* once the lifecycle is Restored, that resource has a file system provider
RemovedByCloseOf(rec, e) ==
    /\ rec.editorId = EditorId(e)
    /\ EditorResource(e) # NoRes
    /\ restored => HasProvider(EditorResource(e))
    /\ RecordOf(rec, EditorResource(e))

\* C24, amended: the recorded close of editor E removes the earlier records
\* that have E's editor identifier and E's resource (primary or associated),
\* keeps every other record in order (those of the same resource and another
\* editor identifier included), and appends the new record at the tail, the
\* oldest record leaving when there are then more than 20; it removes none
\* when E has no resource or its resource has no file system provider once
\* the lifecycle is Restored.
C24_DedupOnClose ==
    [][RecordingClose =>
        recentlyClosedEditors' =
            LastRecords(Append(SelectSeq(recentlyClosedEditors,
                                         LAMBDA rec : ~RemovedByCloseOf(rec, lastEvent'.editor)),
                               CloseRecorded))]_vars

\* the close of an editor has taken the place of an earlier record of its
\* resource and identifier, while a record of the same resource and another
\* identifier is still in the buffer
C24_Witness ==
    /\ lastEvent.op = "closeEditor"
    /\ lastEvent.closed = Len(recentlyClosedEditors)
    /\ lastEvent.closed \in 2 .. MAX_RECENTLY_CLOSED_EDITORS - 1
    /\ EditorResource(lastEvent.editor) # NoRes
    /\ recentlyClosedEditors[Len(recentlyClosedEditors)].editor = ToUntyped(lastEvent.editor)
    /\ \E i \in 1 .. Len(recentlyClosedEditors) - 1 :
          /\ recentlyClosedEditors[i].resource = EditorResource(lastEvent.editor)
          /\ recentlyClosedEditors[i].editorId # EditorId(lastEvent.editor)

\* ---- hydration of the history ----

\* a step in which loadHistory alone writes the history: the first read of
\* the history when the groups are ready, or whenReady resolving after an
\* earlier access had to wait for it
HydrationStep ==
    \/ lastEvent'.op = "getHistory" /\ ~historyLoaded /\ isReady
    \/ lastEvent'.op = "whenReady" /\ whenReadyPending

\* the opened editors as history entries, the most recently active first
OpenedAsEntries ==
    [i \in 1 .. Len(openedEditors) |-> preferResourceEditorInput(Input(openedEditors[i]))]

\* the (resource, editor id) pairs of the opened editors
OpenedPairs ==
    {<<EditorResource(openedEditors[i]), EditorId(openedEditors[i])>> :
        i \in {j \in 1 .. Len(openedEditors) : EditorResource(openedEditors[j]) # NoRes}}

\* the stored entries whose (resource, override) pair no opened editor has
StoredNotOpened ==
    SelectSeq(storedHistory, LAMBDA editor : <<editor.resource, editor.override>> \notin OpenedPairs)

FirstEntries(list, n) == SubSeq(list, 1, IF Len(list) < n THEN Len(list) ELSE n)

\* C25 as stated: right after hydration the history is the opened editors,
\* the most recently active first, followed by every stored entry whose
\* (resource, editor kind) pair no opened editor has, in stored order
C25_AsClaimed ==
    [][HydrationStep => history' = OpenedAsEntries \o StoredNotOpened]_vars

\* C25: right after hydration the history is the first MAX_HISTORY_ITEMS
\* entries of: the opened editors, the most recently active first, followed
\* by the stored entries whose (resource, override) pair no opened editor
\* has, in stored order; stored entries past the bound are dropped
C25_HydratedOrder ==
    [][HydrationStep =>
        history' = FirstEntries(OpenedAsEntries \o StoredNotOpened, MAX_HISTORY_ITEMS)]_vars

\* whenReady has just hydrated the history from one opened editor and two
\* stored entries, the first of which the opened editor had already seeded
C25_Witness ==
    /\ lastEvent.op = "whenReady"
    /\ openedEditors = <<"fileA">>
    /\ Len(storedHistory) = 2
    /\ history = <<Descriptor(FileA, "default"), Descriptor(FileB, "default")>>

\* C26 as stated: no step adds to the history an entry whose resource the
\* exclusion matcher matches: neither hydration nor the activation of an
\* editor puts an excluded resource into the history.
C26_AsClaimed ==
    [][\A i \in 1 .. Len(history') :
          OriginalUri(history'[i]) \in excluded' =>
              \E j \in 1 .. Len(history) : history[j] = history'[i]]_vars

----------------------------------------------------------------------------
(* The history and the navigation stack under file events: moves, deletes  *)
(* performed in the workbench, and deletes reported by the file watcher    *)

MaxFileSteps == 4

InitFiles == budget = MaxFileSteps /\ AfterActivations(0, TRUE)

NextFiles ==
    \/ \E e \in {"fileA", "inFolder"} : ActiveEditorChange(e, 1, 1)
    \/ ActiveEditorChange("custom", 1, NoSel)
    \/ \E r \in {FileA, Folder, CustomDoc} : OperationMove(r, FileB, TRUE)
    \/ OperationMove(Folder, Filler(1), FALSE)
    \/ \E r \in {FileA, Folder, CustomDoc} : OperationDelete(r)
    \/ \E r \in {FileA, Folder, CustomDoc} : FilesChangeDeleted(r)

SpecFiles == InitFiles /\ [][NextFiles]_vars

\* the step handles the move of a resource to a file
FileMoveStep ==
    /\ EventStep
    /\ lastEvent'.op = "operationMove"
    /\ lastEvent'.isFile

\* entry is a descriptor whose resource is r or lies under r
AtOrUnder(entry, r) == ~isEditorInput(entry) /\ IsEqualOrParent(entry.resource, r)

MoveStep ==
    /\ EventStep
    /\ lastEvent'.op = "operationMove"

\* list without the descriptors whose resource is r or lies under r
WithoutAtOrUnder(list, r) == SelectSeq(list, LAMBDA entry : ~AtOrUnder(entry, r))

\* C28 as stated: a move event with source F, a file or a folder, removes
\* from the navigation stack and from the history every descriptor whose
\* resource is F or lies under F, and no live-handle entry.
C28_AsClaimed ==
    [][MoveStep =>
        /\ \A i \in 1 .. Len(history') : history'[i] = Descriptor(lastEvent'.target, NoId)
                                            \/ ~AtOrUnder(history'[i], lastEvent'.resource)
        /\ \A i \in 1 .. Len(editorNavigationStack') :
              editorNavigationStack'[i].editor = Descriptor(lastEvent'.target, NoId)
                 \/ ~AtOrUnder(editorNavigationStack'[i].editor, lastEvent'.resource)
        /\ LiveHandles(history') = LiveHandles(history)
        /\ LiveHandles(StackEditors(editorNavigationStack')) =
              LiveHandles(StackEditors(editorNavigationStack))]_vars

\* C28, amended: a move event is handled only when its target is a file.
\* It then removes from the navigation stack and from the history every
\* descriptor whose resource is the source or lies under it, keeps every
\* other entry in order, live handles included, and adds the target's
\* descriptor to a list it removed from: at the front of the history, at
\* the end of the stack (in place of the last entry when that one has the
\* target's resource).  A move whose target is not a file (the rename of a
\* folder) leaves both lists as they were.
C28_MoveToFileCascades ==
    [][MoveStep =>
        LET F == lastEvent'.resource
            target == Descriptor(lastEvent'.target, NoId)
            kept == WithoutAtOrUnder(history, F)
            keptStack == WithoutAtOrUnder(StackEditors(editorNavigationStack), F)
        IN  IF lastEvent'.isFile
            THEN /\ history' = IF Len(kept) < Len(history) THEN <<target>> \o kept ELSE kept
                 /\ IF Len(keptStack) < Len(editorNavigationStack)
                    THEN \/ StackEditors(editorNavigationStack') = Append(keptStack, target)
                         \/ /\ keptStack # <<>>
                            /\ OriginalUri(keptStack[Len(keptStack)]) = lastEvent'.target
                            /\ StackEditors(editorNavigationStack') =
                                  [keptStack EXCEPT ![Len(keptStack)] = target]
                    ELSE StackEditors(editorNavigationStack') = keptStack
            ELSE /\ history' = history
                 /\ editorNavigationStack' = editorNavigationStack]_vars

\* the move of the path above the file in the folder to a file has removed
\* that file's descriptor and left the custom editor's live handle, in the
\* history and in the navigation stack
C28_Witness ==
    /\ lastEvent.op = "operationMove"
    /\ lastEvent.resource = Folder
    /\ lastEvent.isFile
    /\ history = <<Descriptor(FileB, NoId), Input("custom")>>
    /\ StackEditors(editorNavigationStack) = <<Input("custom"), Descriptor(FileB, NoId)>>

\* the step handles a delete, reported by the file watcher or performed in
\* the workbench
AnyDeleteStep ==
    /\ EventStep
    /\ lastEvent'.op \in {"filesChange", "operationDelete"}

\* list without the descriptors whose resource is r
WithoutExactly(list, r) ==
    SelectSeq(list, LAMBDA entry : isEditorInput(entry) \/ entry.resource # r)

\* C29 as stated: a delete event for R, from the file watcher or from a
\* performed delete, removes exactly the descriptors whose resource is R;
\* descriptors of resources under R and live handles stay.
C29_AsClaimed ==
    [][AnyDeleteStep =>
        /\ history' = WithoutExactly(history, lastEvent'.resource)
        /\ StackEditors(editorNavigationStack') =
              WithoutExactly(StackEditors(editorNavigationStack), lastEvent'.resource)]_vars

\* C29, amended: a delete reported by the file watcher for R removes exactly
\* the descriptors whose resource is R; a delete performed in the workbench
\* on R removes the descriptors whose resource is R or lies under R; live
\* handles are removed by neither.
C29_DeleteMatches ==
    [][AnyDeleteStep =>
        LET R == lastEvent'.resource
        IN  IF lastEvent'.op = "filesChange"
            THEN /\ history' = WithoutExactly(history, R)
                 /\ StackEditors(editorNavigationStack') =
                       WithoutExactly(StackEditors(editorNavigationStack), R)
            ELSE /\ history' = WithoutAtOrUnder(history, R)
                 /\ StackEditors(editorNavigationStack') =
                       WithoutAtOrUnder(StackEditors(editorNavigationStack), R)]_vars

\* the delete of the folder, performed in the workbench, has removed the
\* descriptor of the file in it from the history and the stack, where the
\* descriptor of file A and the custom editor's live handle remain
C29_Witness ==
    /\ lastEvent.op = "operationDelete"
    /\ lastEvent.resource = Folder
    /\ history = <<Input("custom"), ToUntyped("fileA")>>
    /\ StackEditors(editorNavigationStack) = <<ToUntyped("fileA"), Input("custom")>>

\* ---- a live handle against the descriptors of the history ----

\* the history after the activation of e when the live handle of e matches
\* the descriptors the predicate same(entry) tells, and the live handles of
\* e itself (the last entry is dropped from a list over its bound)
AfterActivation(e, same(_)) ==
    LET inserted == <<preferResourceEditorInput(Input(e))>>
                       \o SelectSeq(history, LAMBDA entry :
                             IF isEditorInput(entry) THEN ~EditorMatches(e, entry.id)
                             ELSE ~same(entry))
    IN  IF Len(inserted) > MAX_HISTORY_ITEMS
        THEN SubSeq(inserted, 1, Len(inserted) - 1)
        ELSE inserted

\* C30 as stated: a live handle matches a descriptor of its resource, before
\* the lifecycle is Restored only if a provider is registered for the
\* resource, from Restored on by the equality of the resources alone; a
\* live handle without a resource matches no descriptor.
C30_AsClaimed ==
    [][ActivationStep =>
        LET e == lastEvent'.editor
            same(entry) == /\ EditorResource(e) # NoRes
                           /\ entry.resource = EditorResource(e)
                           /\ restored \/ HasProvider(EditorResource(e))
        IN  history' = AfterActivation(e, same)]_vars

\* C30, amended: a live handle matches a descriptor of its resource, before
\* the lifecycle is Restored by the equality of the resources alone, from
\* Restored on only if a file system provider is registered for the
\* resource; a live handle without a resource matches no descriptor.
C30_ProviderGateOnceRestored ==
    [][ActivationStep =>
        LET e == lastEvent'.editor
            same(entry) == /\ EditorResource(e) # NoRes
                           /\ entry.resource = EditorResource(e)
                           /\ restored => HasProvider(EditorResource(e))
        IN  history' = AfterActivation(e, same)]_vars

\* the remote editor, whose resource has no provider, was activated before
\* and after the lifecycle reached Restored: its second activation did not
\* match the descriptor of the first, and the history holds two of them
C30_Witness ==
    /\ lastEvent.op = "activeEditorChange"
    /\ lastEvent.editor = "remote"
    /\ restored
    /\ Len(history) >= 2
    /\ history[1] = ToUntyped("remote")
    /\ history[2] = ToUntyped("remote")

----------------------------------------------------------------------------
(* The cursors of the recently-used editor stacks *)

\* the step handles openNextRecentlyUsedEditor or openPreviouslyUsedEditor
RecentlyUsedStep ==
    /\ EventStep
    /\ lastEvent'.op \in {"openNextRecentlyUsedEditor", "openPreviouslyUsedEditor"}

\* the snapshot and the cursor of the scope the call is about, after it
ScopeStackAfter ==
    IF AcrossGroups(lastEvent'.groupId) THEN recentlyUsedEditorsStack'
    ELSE recentlyUsedEditorsInGroupStack'

ScopeIndexBefore ==
    IF AcrossGroups(lastEvent'.groupId) THEN recentlyUsedEditorsStackIndex
    ELSE recentlyUsedEditorsInGroupStackIndex

ScopeIndexAfter ==
    IF AcrossGroups(lastEvent'.groupId) THEN recentlyUsedEditorsStackIndex'
    ELSE recentlyUsedEditorsInGroupStackIndex'

Max(a, b) == IF a > b THEN a ELSE b

Min(a, b) == IF a < b THEN a ELSE b

\* the cursor moves from i to max(i-1, 0) on openNext and to min(i+1, n-1)
\* on openPrevious, n being the length of the snapshot
CursorMoves ==
    LET n == Len(ScopeStackAfter.editors)
        i == ScopeIndexBefore
    IN  ScopeIndexAfter = IF lastEvent'.op = "openNextRecentlyUsedEditor"
                          THEN Max(i - 1, 0) ELSE Min(i + 1, n - 1)

\* the cursor is within the snapshot and the editor under it is opened
OpensAtCursor ==
    /\ ScopeIndexAfter >= 0
    /\ ScopeIndexAfter <= Len(ScopeStackAfter.editors) - 1
    /\ lastOpen' = RecentlyUsedOpen(ScopeStackAfter.editors[ScopeIndexAfter + 1])

\* C31 as stated: for a snapshot of any length n >= 0, openNext moves the
\* cursor from i to max(i-1, 0), openPrevious to min(i+1, n-1), the cursor
\* is then within [0, n-1] and the editor opened is the one at the cursor.
C31_AsClaimed ==
    [][RecentlyUsedStep => (CursorMoves /\ OpensAtCursor)]_vars

\* C31, amended: openNext moves the cursor from i to max(i-1, 0) and
\* openPrevious to min(i+1, n-1).  With a snapshot that is not empty the
\* cursor is then within [0, n-1] and the editor opened is the one at the
\* cursor; with the empty snapshot the cursor is 0 after openNext, -1 after
\* openPrevious, and no editor is opened.
C31_CursorClamped ==
    [][RecentlyUsedStep =>
        /\ CursorMoves
        /\ IF ScopeStackAfter.editors # <<>>
           THEN OpensAtCursor
           ELSE /\ ScopeIndexAfter = IF lastEvent'.op = "openNextRecentlyUsedEditor"
                                     THEN 0 ELSE -1
                /\ lastOpen' = lastOpen
                /\ recentlyUsedPending' = recentlyUsedPending
                /\ recentlyUsedInGroupPending' = recentlyUsedInGroupPending]_vars

\* openPreviouslyUsedEditor, called twice across groups on a snapshot of
\* two editors, has stopped at the last of them, which it opened
C31_Witness ==
    /\ lastEvent.op = "openPreviouslyUsedEditor"
    /\ lastEvent.from = 1
    /\ Len(recentlyUsedEditorsStack.editors) = 2
    /\ recentlyUsedEditorsStackIndex = 1
    /\ lastOpen = RecentlyUsedOpen(recentlyUsedEditorsStack.editors[2])

\* ---- the sessions of the recently-used editor stacks ----

\* the step handles a change of the most-recently-active order
RecencyStep ==
    /\ EventStep
    /\ lastEvent'.op = "mostRecentlyActiveEditorsChange"

GlobalSessionKept == UNCHANGED <<recentlyUsedEditorsStack, recentlyUsedEditorsStackIndex>>

GlobalSessionDropped ==
    /\ recentlyUsedEditorsStack' = NoRecentStack
    /\ recentlyUsedEditorsStackIndex' = 0

InGroupSessionKept ==
    UNCHANGED <<recentlyUsedEditorsInGroupStack, recentlyUsedEditorsInGroupStackIndex>>

InGroupSessionDropped ==
    /\ recentlyUsedEditorsInGroupStack' = NoRecentStack
    /\ recentlyUsedEditorsInGroupStackIndex' = 0

\* a call of openNext or openPrevious keeps the snapshot of a session under
\* way in its scope and leaves the session of the other scope as it is
CallKeepsSnapshots ==
    IF AcrossGroups(lastEvent'.groupId)
    THEN /\ recentlyUsedEditorsStack.defined =>
               recentlyUsedEditorsStack' = recentlyUsedEditorsStack
         /\ InGroupSessionKept
    ELSE /\ recentlyUsedEditorsInGroupStack.defined =>
               recentlyUsedEditorsInGroupStack' = recentlyUsedEditorsInGroupStack
         /\ GlobalSessionKept

\* C32 as stated: a session survives the calls of openNext and openPrevious
\* and the recency changes its own navigation causes, and every recency
\* change with another cause drops it, also while one of its opens is
\* pending; the navigation of one scope does not drop the session of the other.
C32_AsClaimed ==
    /\ [][RecentlyUsedStep => CallKeepsSnapshots]_vars
    /\ [][RecencyStep =>
            /\ IF lastEvent'.cause = "external"
               THEN GlobalSessionDropped /\ InGroupSessionDropped
               ELSE IF lastEvent'.cause = "global"
               THEN GlobalSessionKept /\ InGroupSessionKept
               ELSE InGroupSessionKept /\ GlobalSessionKept]_vars

\* C32, amended: a session survives the calls of openNext and openPrevious.
\* A recency change, whatever caused it, leaves the session of a scope as
\* it is while the navigating flag of that scope is set and drops it (no
\* snapshot, cursor 0) otherwise: an external change handled while the flag
\* is set does not drop the session, and the change caused by a navigation
\* in one scope drops the session of the other scope unless that one's flag
\* is set as well.
C32_SessionGuardedByFlag ==
    /\ [][RecentlyUsedStep => CallKeepsSnapshots]_vars
    /\ [][RecencyStep =>
            /\ IF navigatingInRecentlyUsedEditorsStack
               THEN GlobalSessionKept ELSE GlobalSessionDropped
            /\ IF navigatingInRecentlyUsedEditorsInGroupStack
               THEN InGroupSessionKept ELSE InGroupSessionDropped]_vars

\* an external recency change arrived while the open of an across-groups
\* navigation was pending: the global session is still there, its cursor on
\* the second editor, and the in-group session is gone
C32_Witness ==
    /\ lastEvent.op = "mostRecentlyActiveEditorsChange"
    /\ lastEvent.cause = "external"
    /\ recentlyUsedPending > 0
    /\ recentlyUsedEditorsStack.defined
    /\ recentlyUsedEditorsStackIndex = 1
    /\ ~recentlyUsedEditorsInGroupStack.defined

----------------------------------------------------------------------------
(* Removal passes over the navigation stack *)

\* the step runs removeFromEditorNavigationStack: a delete, a move to a
\* file, a failed open, or the disposal of an editor the stack listens to
StackRemovalStep ==
    /\ EventStep
    /\ \/ lastEvent'.op \in {"filesChange", "operationDelete", "openEditorFail"}
       \/ lastEvent'.op = "operationMove" /\ lastEvent'.isFile
       \/ lastEvent'.op = "dispose" /\ lastEvent'.editor \in editorNavigationStackListeners

\* what the handler of the step passes to removeFromEditorNavigationStack
RemovalArgument ==
    CASE lastEvent'.op = "filesChange" -> FilesDeleted(lastEvent'.resource)
      [] lastEvent'.op = "operationDelete" -> DeleteOperation(lastEvent'.resource)
      [] lastEvent'.op = "operationMove" ->
            MoveOperation(lastEvent'.resource, lastEvent'.target)
      [] OTHER -> Input(lastEvent'.editor)

\* the entries of the stack the removal pass of the step leaves, in order
Survivors ==
    SelectSeq(editorNavigationStack, LAMBDA en : ~matches(RemovalArgument, en.editor))

MoveThatRemoved ==
    /\ lastEvent'.op = "operationMove"
    /\ Len(Survivors) < Len(editorNavigationStack)
    /\ ~navigatingInEditorStack

----------------------------------------------------------------------------
(* Hydration of the history before the editor groups are ready *)

\* loadHistory runs in the step
LoadsHistory ==
    \/ ~historyLoaded /\ historyLoaded' /\ isReady /\ lastEvent'.op # "clearRecentlyOpened"
    \/ whenReadyPending /\ lastEvent'.op = "whenReady"

\* this.history is defined and no loadHistory is still to come
Hydrated == historyLoaded /\ ~whenReadyPending

\* C34: hydration runs at most once: once the history is defined and no
\* load is awaited, it stays so and no step loads it again.  A first access
\* before the groups are ready leaves the load waiting for whenReady; when
\* whenReady resolves, the list is rebuilt from the opened editors and the
\* entries then stored, whatever it held in between; saveState handled in
\* between stores the descriptors of the list as it is then.
C34_HydratesOnce ==
    /\ [][Hydrated => (Hydrated' /\ ~LoadsHistory)]_vars
    /\ [][historyLoaded => historyLoaded']_vars
    /\ [][(EventStep /\ ~historyLoaded /\ ~isReady /\ historyLoaded'
              /\ lastEvent'.op # "clearRecentlyOpened") =>
             (whenReadyPending' /\ (lastEvent'.op = "getHistory" => history' = <<>>))]_vars
    /\ [][(EventStep /\ whenReadyPending /\ lastEvent'.op = "whenReady") =>
             /\ history' = FirstEntries(OpenedAsEntries \o StoredNotOpened, MAX_HISTORY_ITEMS)
             /\ Hydrated']_vars
    /\ [][(EventStep /\ whenReadyPending /\ lastEvent'.op = "saveState") =>
             storedHistory' = SelectSeq(history, LAMBDA entry : ~isEditorInput(entry))]_vars

\* before the groups were ready the remote editor was activated and the
\* state saved; whenReady has then rebuilt the history from the opened
\* editor and the entry saved in between, the entries stored before are gone
C34_Witness ==
    /\ lastEvent.op = "whenReady"
    /\ openedEditors = <<"fileA">>
    /\ storedHistory = <<ToUntyped("remote")>>
    /\ history = <<ToUntyped("fileA"), ToUntyped("remote")>>
    /\ Hydrated

====
